---- MODULE Spec2Model ----
(***************************************************************************)
(* wrok: the interactive task browser (ListModel), its ranked search and   *)
(* the store it refreshes from.                                            *)
(*                                                                         *)
(* Go strings are modelled as sequences of one-character strings, so that  *)
(* ToLower, TrimSpace, HasPrefix, HasSuffix and Contains are computed.     *)
(***************************************************************************)
EXTENDS Integers, Sequences, FiniteSets, TLC

\* ---------------------------------------------------------------- bounds
\* number of tasks in the store of the list view
MaxTasks == 7
\* longest query typed in the list view
MaxQuery == 2
\* successful store mutations (toggle done / archive) in one session
MaxMutations == 1
\* shimmer advances explored after a reset
MaxShimmerSteps == 1
\* milliseconds of animation explored
MaxAnimClock == 2200
\* text messages typed into the wizard
MaxTyped == 1
\* messages a view still handles after it has returned tea.Quit
MaxLate == 1
\* longest task list given to the ranked search on its own
MaxSearchTasks == 3
\* longest query given to the ranked search on its own
MaxSearchQuery == 2
\* sessions ever created in the session store
MaxSessions == 2
\* changes of the wall clock while sessions are tracked
MaxClockChanges == 1

\* ---------------------------------------------------------------- strings
\* A string is a sequence of characters.  A printable ASCII character is
\* written as itself and \t, \n, \r, \f by their escapes; every other
\* character is written by the name of its code point, "U+00E9" for the
\* letter e with acute accent.
UpperLetters ==
  <<"A","B","C","D","E","F","G","H","I","J","K","L","M",
    "N","O","P","Q","R","S","T","U","V","W","X","Y","Z", "U+00C9">>

LowerLetters ==
  <<"a","b","c","d","e","f","g","h","i","j","k","l","m",
    "n","o","p","q","r","s","t","u","v","w","x","y","z", "U+00E9">>

ToLowerChar(c) ==
  IF \E i \in DOMAIN UpperLetters : UpperLetters[i] = c
    THEN LowerLetters[CHOOSE i \in DOMAIN UpperLetters : UpperLetters[i] = c]
    ELSE c

ToLower(s) == [i \in 1..Len(s) |-> ToLowerChar(s[i])]

\* The white space of unicode.IsSpace outside \t, \n, \r, \f and the space
UnicodeSpace ==
  {"U+000B", "U+0085", "U+00A0", "U+1680",
   "U+2000", "U+2001", "U+2002", "U+2003", "U+2004", "U+2005", "U+2006",
   "U+2007", "U+2008", "U+2009", "U+200A",
   "U+2028", "U+2029", "U+202F", "U+205F", "U+3000"}

\* unicode.IsSpace, which strings.TrimSpace uses
IsSpace(c) == c \in {" ", "\t", "\n", "\r", "\f"} \cup UnicodeSpace

\* the number of bytes of a character in UTF-8, which len counts
Utf8Len(c) ==
  IF c \in {"U+0085", "U+00A0", "U+00C9", "U+00E9"} THEN 2
  ELSE IF c \in UnicodeSpace \ {"U+000B"} THEN 3
  ELSE 1

\* len(s) of a string
RECURSIVE ByteLen(_)
ByteLen(s) == IF s = <<>> THEN 0 ELSE Utf8Len(Head(s)) + ByteLen(Tail(s))

RECURSIVE TrimLeft(_)
TrimLeft(s) ==
  IF s # <<>> /\ IsSpace(Head(s)) THEN TrimLeft(Tail(s)) ELSE s

RECURSIVE TrimRight(_)
TrimRight(s) ==
  IF s # <<>> /\ IsSpace(s[Len(s)]) THEN TrimRight(SubSeq(s, 1, Len(s) - 1)) ELSE s

TrimSpace(s) == TrimRight(TrimLeft(s))

HasPrefix(s, p) == Len(p) <= Len(s) /\ SubSeq(s, 1, Len(p)) = p

HasSuffix(s, p) == Len(p) <= Len(s) /\ SubSeq(s, Len(s) - Len(p) + 1, Len(s)) = p

Contains(s, p) ==
  \E i \in 0..(Len(s) - Len(p)) : SubSeq(s, i + 1, i + Len(p)) = p

DigitChars == <<"0","1","2","3","4","5","6","7","8","9">>

\* fmt.Sprintf("%d", n) for n >= 0
RECURSIVE Itoa(_)
Itoa(n) ==
  IF n < 10 THEN <<DigitChars[n + 1]>>
  ELSE Itoa(n \div 10) \o <<DigitChars[(n % 10) + 1]>>

StatusTodo == <<"t","o","d","o">>
StatusDone == <<"d","o","n","e">>
StatusArchived == <<"a","r","c","h","i","v","e","d">>

\* ---------------------------------------------------------------- float64
\* The center of the shimmer is a float64.  What Update computes with it is
\* kept exactly: every value is a multiple of 2^-56, the spacing of float64
\* just below 1/8 (the velocity is at least 1/12 glyph, so no value lies on
\* a finer grid), and is held as a sign and a natural number of such units;
\* the values stay below 2^11 glyphs.  A natural number is a sequence of
\* limbs in base 2^15, least significant first, without a zero at the top.
LimbBase == 2^15

RECURSIVE SmallBitLen(_)
SmallBitLen(k) == IF k = 0 THEN 0 ELSE 1 + SmallBitLen(k \div 2)

LimbBits == SmallBitLen(LimbBase) - 1

\* significant bits of a float64
MantissaBits == 53

\* 2^-UnitBits is the unit
UnitBits == MantissaBits + 3

Limb(a, i) == IF i <= Len(a) THEN a[i] ELSE 0

RECURSIVE NatNorm(_)
NatNorm(a) ==
  IF a # <<>> /\ a[Len(a)] = 0 THEN NatNorm(SubSeq(a, 1, Len(a) - 1)) ELSE a

RECURSIVE NatAddFrom(_, _, _, _)
NatAddFrom(a, b, i, carry) ==
  IF i > Len(a) /\ i > Len(b)
    THEN IF carry = 0 THEN <<>> ELSE <<carry>>
    ELSE LET t == Limb(a, i) + Limb(b, i) + carry
         IN  <<t % LimbBase>> \o NatAddFrom(a, b, i + 1, t \div LimbBase)

NatAdd(a, b) == NatNorm(NatAddFrom(a, b, 1, 0))

RECURSIVE NatSubFrom(_, _, _, _)
NatSubFrom(a, b, i, borrow) ==
  IF i > Len(a) THEN <<>>
  ELSE LET t == Limb(a, i) - Limb(b, i) - borrow
       IN  <<IF t < 0 THEN t + LimbBase ELSE t>>
             \o NatSubFrom(a, b, i + 1, IF t < 0 THEN 1 ELSE 0)

\* a - b, for a >= b
NatSub(a, b) == NatNorm(NatSubFrom(a, b, 1, 0))

RECURSIVE NatLessFrom(_, _, _)
NatLessFrom(a, b, i) ==
  IF i = 0 THEN FALSE
  ELSE IF a[i] # b[i] THEN a[i] < b[i]
  ELSE NatLessFrom(a, b, i - 1)

NatLess(a, b) ==
  IF Len(a) # Len(b) THEN Len(a) < Len(b) ELSE NatLessFrom(a, b, Len(a))

RECURSIVE NatMulFrom(_, _, _, _)
NatMulFrom(a, k, i, carry) ==
  IF i > Len(a)
    THEN IF carry = 0 THEN <<>> ELSE <<carry>>
    ELSE LET t == a[i] * k + carry
         IN  <<t % LimbBase>> \o NatMulFrom(a, k, i + 1, t \div LimbBase)

\* a * k, for k below the base
NatMul(a, k) == NatNorm(NatMulFrom(a, k, 1, 0))

RECURSIVE NatDivFrom(_, _, _, _)
NatDivFrom(a, d, i, rem) ==
  IF i = 0 THEN [q |-> <<>>, r |-> rem]
  ELSE LET t == rem * LimbBase + a[i]
           rest == NatDivFrom(a, d, i - 1, t % d)
       IN  [q |-> Append(rest.q, t \div d), r |-> rest.r]

\* quotient and remainder of a by d, for d below the base
NatDiv(a, d) ==
  LET x == NatDivFrom(a, d, Len(a), 0) IN [q |-> NatNorm(x.q), r |-> x.r]

NatPow2(k) ==
  [i \in 1..(k \div LimbBits + 1) |->
     IF i = k \div LimbBits + 1 THEN 2^(k % LimbBits) ELSE 0]

BitLen(a) ==
  IF a = <<>> THEN 0 ELSE LimbBits * (Len(a) - 1) + SmallBitLen(a[Len(a)])

\* rounding of float64: the number of MantissaBits significant bits nearest
\* to q + r/den units, the one with an even last bit when two are as near
RoundToFloat(q, r, den) ==
  LET shift == IF BitLen(q) > MantissaBits THEN BitLen(q) - MantissaBits ELSE 0
      g == 2^shift
      low == Limb(q, 1) % g
      odd == (Limb(q, 1) \div g) % 2 = 1
      above == 2 * (low * den + r)
      down == NatSub(q, <<low>>)
  IN  IF above > g * den \/ (above = g * den /\ odd)
        THEN NatAdd(down, <<g>>)
        ELSE down

FloatZero == [neg |-> FALSE, mag |-> <<>>]

\* float64(num) / float64(den) for two integers that float64 holds exactly
FloatOfRatio(num, den) ==
  LET d == NatDiv(NatMul(NatPow2(UnitBits), num), den)
  IN  [neg |-> FALSE, mag |-> RoundToFloat(d.q, d.r, den)]

\* -x
FloatMinus(x) == IF x.mag = <<>> THEN x ELSE [x EXCEPT !.neg = ~x.neg]

\* x + y of float64
FloatAdd(x, y) ==
  IF x.neg = y.neg
    THEN [neg |-> x.neg, mag |-> RoundToFloat(NatAdd(x.mag, y.mag), 0, 1)]
  ELSE IF x.mag = y.mag THEN FloatZero
  ELSE IF NatLess(x.mag, y.mag)
    THEN [neg |-> y.neg, mag |-> RoundToFloat(NatSub(y.mag, x.mag), 0, 1)]
  ELSE [neg |-> x.neg, mag |-> RoundToFloat(NatSub(x.mag, y.mag), 0, 1)]

\* x < y and x >= y of float64
FloatLess(x, y) ==
  IF x.neg # y.neg THEN x.neg
  ELSE IF x.neg THEN NatLess(y.mag, x.mag)
  ELSE NatLess(x.mag, y.mag)

FloatGeq(x, y) == ~FloatLess(x, y)

\* Update: ticksPerCycle, CycleMs / SpeedMs, a whole number for the
\* configurations of the view
TicksPerCycle(c) == c.CycleMs \div c.SpeedMs

\* Update: velocity, visibleLen * (1 + 2*WidthRatio) / ticksPerCycle; the
\* product is exact and the quotient is rounded
Velocity(c, visibleLen) ==
  FloatOfRatio(visibleLen * (c.WidthRatio[2] + 2 * c.WidthRatio[1]),
               c.WidthRatio[2] * TicksPerCycle(c))

\* Update: maxCenter, visibleLen + visibleLen*WidthRatio
MaxCenter(c, visibleLen) ==
  FloatOfRatio(visibleLen * (c.WidthRatio[2] + c.WidthRatio[1]), c.WidthRatio[2])

\* Update: the center a new cycle starts from, -visibleLen*WidthRatio
StartCenter(c, visibleLen) ==
  FloatMinus(FloatOfRatio(visibleLen * c.WidthRatio[1], c.WidthRatio[2]))

\* ---------------------------------------------------------------- ranked search
\* the words the search adds for a priority
PriorityFields(p) ==
  CASE p = 1 -> << <<"l","o","w">>, <<"1">> >>
    [] p = 2 -> << <<"m","e","d","i","u","m">>, <<"m","e","d">>, <<"2">> >>
    [] p = 3 -> << <<"h","i","g","h">>, <<"3">> >>
    [] OTHER -> << >>

\* searchableFields, in the order the loop visits them
SearchableFields(task) ==
  << Itoa(task.ID), task.Title, task.Project, task.JiraID, task.Note >>
    \o task.Tags \o PriorityFields(task.Priority) \o << task.Status >>

\* mutant: the contains check is missing
FieldMatch_NoFuzzy(fieldLower, query) ==
  IF HasPrefix(fieldLower, query) THEN "prefix"
  ELSE IF HasSuffix(fieldLower, query) THEN "suffix"
  ELSE ""

\* the three non-exact checks on one field, tried in this order
FieldMatch(fieldLower, query) ==
  IF HasPrefix(fieldLower, query) THEN "prefix"
  ELSE IF HasSuffix(fieldLower, query) THEN "suffix"
  ELSE IF Contains(fieldLower, query) THEN "fuzzy"
  ELSE ""

\* the loop over the fields of one task: "exact" as soon as a field equals
\* the query, otherwise the match type of the first field that matches
RECURSIVE MatchLoop(_, _, _, _)
MatchLoop(fields, i, query, matchType) ==
  IF i > Len(fields) THEN matchType
  ELSE IF fields[i] = <<>> THEN MatchLoop(fields, i + 1, query, matchType)
  ELSE IF ToLower(fields[i]) = query THEN "exact"
  ELSE MatchLoop(fields, i + 1, query,
                 IF matchType = "" THEN FieldMatch(ToLower(fields[i]), query)
                 ELSE matchType)

MatchType(task, query) == MatchLoop(SearchableFields(task), 1, query, "")

\* mutant: a bucket is filled from the end of the list
TasksOfType_Backwards(tasks, query, type) ==
  LET sel == SelectSeq(tasks, LAMBDA t : MatchType(t, query) = type)
  IN  [i \in 1..Len(sel) |-> sel[Len(sel) + 1 - i]]

\* one bucket: the tasks of the list with this match type, in list order
TasksOfType(tasks, query, type) ==
  SelectSeq(tasks, LAMBDA t : MatchType(t, query) = type)

\* mutant: the prefix bucket is emitted before the exact bucket
RankedBuckets_PrefixFirst(tasks, query) ==
  TasksOfType(tasks, query, "prefix") \o TasksOfType(tasks, query, "exact")
    \o TasksOfType(tasks, query, "suffix") \o TasksOfType(tasks, query, "fuzzy")

\* the four buckets, concatenated in priority order
RankedBuckets(tasks, query) ==
  TasksOfType(tasks, query, "exact") \o TasksOfType(tasks, query, "prefix")
    \o TasksOfType(tasks, query, "suffix") \o TasksOfType(tasks, query, "fuzzy")

\* mutant: the query is not trimmed
searchInMemoryTasks_NoTrim(query, tasks) ==
  LET q == ToLower(query)
  IN IF q = <<>> THEN tasks ELSE RankedBuckets(tasks, q)

searchInMemoryTasks(query, tasks) ==
  LET q == ToLower(TrimSpace(query))
  IN IF q = <<>> THEN tasks ELSE RankedBuckets(tasks, q)

\* ---------------------------------------------------------------- the search of package db
\* SearchTasks: the field list it builds for one task
DbSearchableFields(task) ==
  LET base == << Itoa(task.ID), task.Title, task.Project, task.JiraID, task.Note >>
      withTags == base \o task.Tags
      withPriority ==
        CASE task.Priority = 1 -> withTags \o << <<"l","o","w">>, <<"1">> >>
          [] task.Priority = 2 -> withTags \o << <<"m","e","d","i","u","m">>, <<"m","e","d">>, <<"2">> >>
          [] task.Priority = 3 -> withTags \o << <<"h","i","g","h">>, <<"3">> >>
          [] OTHER -> withTags
  IN  withPriority \o << task.Status >>

\* SearchTasks: the loop over the fields of one task from field k on; the
\* state of the loop is the pair found, matchType
RECURSIVE DbFieldLoop(_, _, _, _)
DbFieldLoop(fields, k, query, st) ==
  IF k > Len(fields) THEN st
  ELSE IF fields[k] = <<>> THEN DbFieldLoop(fields, k + 1, query, st)
  ELSE LET fieldLower == ToLower(fields[k])
           afterPrefix == IF st.matchType = "" /\ HasPrefix(fieldLower, query)
                            THEN "prefix" ELSE st.matchType
           afterSuffix == IF afterPrefix = "" /\ HasSuffix(fieldLower, query)
                            THEN "suffix" ELSE afterPrefix
           afterFuzzy == IF afterSuffix = "" /\ Contains(fieldLower, query)
                            THEN "fuzzy" ELSE afterSuffix
       IN  IF fieldLower = query
             THEN [found |-> TRUE, matchType |-> "exact"]
             ELSE DbFieldLoop(fields, k + 1, query, [st EXCEPT !.matchType = afterFuzzy])

\* SearchTasks: the loop over allTasks from task i on; acc holds the four
\* lists of matches
RECURSIVE DbTaskLoop(_, _, _, _)
DbTaskLoop(allTasks, i, query, acc) ==
  IF i > Len(allTasks) THEN acc
  ELSE LET task == allTasks[i]
           st == DbFieldLoop(DbSearchableFields(task), 1, query,
                             [found |-> FALSE, matchType |-> ""])
       IN  DbTaskLoop(allTasks, i + 1, query,
             IF st.found THEN [acc EXCEPT !.exactMatches = Append(@, task)]
             ELSE IF st.matchType = "prefix" THEN [acc EXCEPT !.prefixMatches = Append(@, task)]
             ELSE IF st.matchType = "suffix" THEN [acc EXCEPT !.suffixMatches = Append(@, task)]
             ELSE IF st.matchType = "fuzzy" THEN [acc EXCEPT !.fuzzyMatches = Append(@, task)]
             ELSE acc)

\* what SearchTasks returns: the tasks, or an error
DbSearch(ok, tasks) == [ok |-> ok, tasks |-> tasks]

\* mutant: the query is matched as typed, without lower-casing
SearchTasks_CaseSensitive(query, fetched) ==
  IF query = <<>> THEN fetched
  ELSE LET q == TrimSpace(query)
       IN  IF q = <<>> \/ ~fetched.ok THEN fetched
           ELSE LET acc == DbTaskLoop(fetched.tasks, 1, q,
                             [exactMatches |-> <<>>, prefixMatches |-> <<>>,
                              suffixMatches |-> <<>>, fuzzyMatches |-> <<>>])
                IN  DbSearch(TRUE, acc.exactMatches \o acc.prefixMatches
                                     \o acc.suffixMatches \o acc.fuzzyMatches)

\* SearchTasks(query, opts); fetched is what GetTasksWithOptions(opts)
\* returns, the task list or an error
SearchTasks(query, fetched) ==
  IF query = <<>> THEN fetched
  ELSE LET q == ToLower(TrimSpace(query))
       IN  IF q = <<>> \/ ~fetched.ok THEN fetched
           ELSE LET acc == DbTaskLoop(fetched.tasks, 1, q,
                             [exactMatches |-> <<>>, prefixMatches |-> <<>>,
                              suffixMatches |-> <<>>, fuzzyMatches |-> <<>>])
                IN  DbSearch(TRUE, acc.exactMatches \o acc.prefixMatches
                                     \o acc.suffixMatches \o acc.fuzzyMatches)

\* ---------------------------------------------------------------- the store
\* The store holds the tasks 1..MaxTasks; only the status of a task changes
\* during a session of the list view, the other columns are fixed per id.
TaskIds == 1..MaxTasks

CatalogTitle(id) ==
  CASE id % 5 = 1 -> <<"a">>
    [] id % 5 = 2 -> <<"A","d">>
    [] id % 5 = 3 -> <<"d","a","d">>
    [] id % 5 = 4 -> <<"b"," ","a">>
    [] OTHER -> <<"d","d">>

CatalogProject(id) == IF id % 3 = 0 THEN <<"a","b">> ELSE <<>>

CatalogTags(id) == IF id % 7 = 0 THEN << <<"d","a">> >> ELSE << >>

CatalogStatus(id) ==
  CASE id % 4 = 0 -> StatusArchived
    [] id % 4 = 2 -> StatusDone
    [] OTHER -> StatusTodo

\* one row of the tasks table, as the list view holds it
MakeTask(id, status) ==
  [ID |-> id, Title |-> CatalogTitle(id), Project |-> CatalogProject(id),
   JiraID |-> <<>>, Note |-> <<>>, Tags |-> CatalogTags(id),
   Priority |-> id % 4, Status |-> status]

\* ids of the store in "id DESC" order
RECURSIVE IdsDesc(_)
IdsDesc(n) == IF n = 0 THEN <<>> ELSE <<n>> \o IdsDesc(n - 1)

\* GetTasksWithOptions with only the status filter set (empty = no filter)
GetTasksWithOptions(store, statusFilter) ==
  LET all == [i \in 1..MaxTasks |-> MakeTask(IdsDesc(MaxTasks)[i], store[IdsDesc(MaxTasks)[i]])]
  IN IF statusFilter = <<>> THEN all
     ELSE SelectSeq(all, LAMBDA t : t.Status = statusFilter)

GetTasks(store) == GetTasksWithOptions(store, <<>>)

\* The four status updates of the task service.  ioErr: the store itself
\* fails (GetTaskByID or Save returns an error).
DbResult(ok, store) == [ok |-> ok, store |-> store]

MarkTaskDone(store, id, ioErr) ==
  IF ioErr \/ store[id] = StatusDone THEN DbResult(FALSE, store)
  ELSE DbResult(TRUE, [store EXCEPT ![id] = StatusDone])

MarkTaskUndone(store, id, ioErr) ==
  IF ioErr \/ store[id] # StatusDone THEN DbResult(FALSE, store)
  ELSE DbResult(TRUE, [store EXCEPT ![id] = StatusTodo])

ArchiveTask(store, id, ioErr) ==
  IF ioErr \/ store[id] = StatusArchived THEN DbResult(FALSE, store)
  ELSE DbResult(TRUE, [store EXCEPT ![id] = StatusArchived])

UnarchiveTask(store, id, ioErr) ==
  IF ioErr \/ store[id] # StatusArchived THEN DbResult(FALSE, store)
  ELSE DbResult(TRUE, [store EXCEPT ![id] = StatusTodo])

\* ---------------------------------------------------------------- list view state
VARIABLES
  width, height,        \* last window size received
  originalTasks,        \* all tasks before filtering
  tasks,                \* currently displayed tasks
  selectedTask,         \* index in tasks, 0-based
  focus,                \* "table" or "search"
  searchActive, searchQuery, searchPersisted,
  shimmer,              \* the shared ShimmerState: Active, Center, IsPaused
  currentPage, tasksPerPage,
  db,                   \* the store: id -> status
  run,                  \* "idle", "running", "quit" (tea.Quit returned), "exited", "panic"
  late,                 \* messages handled since tea.Quit was returned
  mutations,            \* successful store mutations so far
  sTasks, sQuery, sResult, sPrev, sPhase,  \* the ranked search run on its own
  clock,                \* wall clock (time.Now), in half seconds
  mono,                 \* the monotonic clock, in the units of clock
  clockChanges,         \* changes of the wall clock so far
  sessions,             \* the sessions table, in id order
  pc,                   \* per process: where its command is
  tm,                   \* per process: the TimerModel of its timer view
  call,                 \* per process: what its database call in progress holds
  anim,                 \* the ShimmerState with its time stamps
  animFocus,            \* focus of the view that owns anim
  animTick,             \* the shimmerTickMsgs scheduled and not yet delivered
  animNow,              \* monotonic clock (time.Now), in milliseconds
  wiz,                  \* the AddTaskModel the runtime holds
  wizRun,               \* "idle", "running", "quit" (tea.Quit returned), "exited", "panic"
  wizTyped,             \* text messages handled so far
  wizLate               \* messages handled since tea.Quit was returned

modelVars == <<width, height, originalTasks, tasks, selectedTask, focus,
               searchActive, searchQuery, searchPersisted, shimmer,
               currentPage, tasksPerPage>>

listVars == <<modelVars, db, run, late, mutations>>

searchVars == <<sTasks, sQuery, sResult, sPrev, sPhase>>

timerVars == <<clock, mono, clockChanges, sessions, pc, tm, call>>

animVars == <<anim, animFocus, animTick, animNow>>

wizVars == <<wiz, wizRun, wizTyped, wizLate>>

vars == <<listVars, searchVars, timerVars, animVars, wizVars>>

\* the ListModel value the runtime currently holds
M ==
  [width |-> width, height |-> height, originalTasks |-> originalTasks,
   tasks |-> tasks, selectedTask |-> selectedTask, focus |-> focus,
   searchActive |-> searchActive, searchQuery |-> searchQuery,
   searchPersisted |-> searchPersisted, shimmer |-> shimmer,
   currentPage |-> currentPage, tasksPerPage |-> tasksPerPage]

\* the runtime keeps the model an Update call returned
Keep(m) ==
  /\ width' = m.width /\ height' = m.height
  /\ originalTasks' = m.originalTasks /\ tasks' = m.tasks
  /\ selectedTask' = m.selectedTask /\ focus' = m.focus
  /\ searchActive' = m.searchActive /\ searchQuery' = m.searchQuery
  /\ searchPersisted' = m.searchPersisted /\ shimmer' = m.shimmer
  /\ currentPage' = m.currentPage /\ tasksPerPage' = m.tasksPerPage

Min(a, b) == IF a < b THEN a ELSE b

\* DefaultShimmerConfig; WidthRatio 0.25 is kept as the fraction 1/4
DefaultShimmerConfig ==
  [Enabled |-> TRUE, ReduceMotion |-> FALSE, SpeedMs |-> 100,
   WidthRatio |-> <<1, 4>>, CycleMs |-> 1800, PauseBetweenMs |-> 500]

\* ShimmerState.ShouldTick
ShouldTick(s) == s.Active /\ s.Config.Enabled /\ ~s.Config.ReduceMotion

\* Reset with the stale pause flag left as it is
ShimmerReset_KeepPause(s) == [s EXCEPT !.Center = FloatZero]

\* ShimmerState.Reset: the center and the pause flag
ShimmerReset(s) == [s EXCEPT !.Center = FloatZero, !.IsPaused = FALSE]

\* ShimmerState.Update(visibleLen) once the tick interval has elapsed and no
\* pause is on: the center moves by the velocity and is held at maxCenter,
\* with the pause flag set, when it reaches it
ShimmerAdvance(s, visibleLen) ==
  LET c == FloatAdd(s.Center, Velocity(s.Config, visibleLen))
      mx == MaxCenter(s.Config, visibleLen)
  IN  IF FloatGeq(c, mx)
        THEN [s EXCEPT !.IsPaused = TRUE, !.Center = mx]
        ELSE [s EXCEPT !.Center = c]

\* the center after k such updates from a reset
RECURSIVE CenterAfter(_, _, _)
CenterAfter(c, visibleLen, k) ==
  IF k = 0 THEN FloatZero
  ELSE FloatAdd(CenterAfter(c, visibleLen, k - 1), Velocity(c, visibleLen))

\* RenderShimmerText: the length of the text left after truncation
VisibleTextLen(textLen, maxWidth) ==
  IF textLen > maxWidth THEN (maxWidth - 3) + 3 ELSE textLen

\* SetActive that ignores its argument and the configuration
ShimmerSetActive_Always(s, active) == [s EXCEPT !.Active = TRUE]

\* ShimmerState.SetActive
ShimmerSetActive(s, active) ==
  [s EXCEPT !.Active = active /\ s.Config.Enabled /\ ~s.Config.ReduceMotion]

\* window sizes delivered by the terminal
WindowSizes == { [w |-> 105, h |-> 8], [w |-> 104, h |-> 19] }

\* status filters of the ls command that opens the view
LoadFilters == { <<>>, StatusTodo }

\* page size computed from the window height
AvailableHeight(h) == IF h - 12 < 3 THEN 3 ELSE h - 12

\* View: width handed to renderTaskTable, 60% of the window width
LeftWidth(w) == (w * 60) \div 100

\* renderTaskTable: priority, jira and due columns are shown
ShowExtraColumns(w) == LeftWidth(w) >= 63

\* the processes that run wrok commands against the same database file
Procs == {1, 2}

\* a time.Time without a monotonic clock reading
NoMono == -1

\* a time.Time read back from the database: the wall clock reading only
WallTime(w) == [wall |-> w, mono |-> NoMono]

\* Time.Sub: the difference of the monotonic readings when both times
\* carry one, of the wall clock readings otherwise
Sub(t, u) ==
  IF t.mono # NoMono /\ u.mono # NoMono THEN t.mono - u.mono
  ELSE t.wall - u.wall

\* no timer view: the zero TimerModel
NoTimer ==
  [sid |-> 0, StartedAt |-> WallTime(0), elapsedTime |-> 0, timerAnimation |-> 0,
   stopping |-> FALSE, exiting |-> FALSE, timerTicks |-> 0, animationTicks |-> 0]

\* no database call in progress: cmd is the command ("start", "stop", "done",
\* "archive"), taskID its argument, row the session row it read or created
\* and now the clock reading it took; started is the StartedAt of the
\* session struct StartSession built
NoCall == [cmd |-> "", taskID |-> 0, row |-> 0, now |-> 0, started |-> WallTime(0)]

\* no session command has run: an empty sessions table
TimerIdle ==
  /\ clock = 0 /\ mono = 0 /\ clockChanges = 0
  /\ sessions = <<>>
  /\ pc = [p \in Procs |-> "idle"]
  /\ tm = [p \in Procs |-> NoTimer]
  /\ call = [p \in Procs |-> NoCall]

\* no wizard is open
WizIdle ==
  /\ wiz = <<>> /\ wizRun = "idle" /\ wizTyped = 0 /\ wizLate = 0

\* no animation is running on its own
AnimIdle ==
  /\ anim = <<>> /\ animFocus = "table" /\ animTick = 0 /\ animNow = 0

SearchIdle ==
  /\ sTasks = <<>> /\ sQuery = <<>> /\ sResult = <<>> /\ sPrev = <<>>
  /\ sPhase = "idle"

\* NewListModel(tasks) on the tasks the ls command fetched
Init ==
  /\ db = [i \in TaskIds |-> CatalogStatus(i)]
  /\ \E f \in LoadFilters :
       /\ originalTasks = GetTasksWithOptions(db, f)
       /\ Len(originalTasks) > 0
  /\ tasks = originalTasks
  /\ selectedTask = 0
  /\ focus = "table"
  /\ searchActive = FALSE /\ searchQuery = <<>> /\ searchPersisted = FALSE
  /\ shimmer = [Active |-> DefaultShimmerConfig.Enabled /\ ~DefaultShimmerConfig.ReduceMotion,
                Center |-> FloatZero, IsPaused |-> FALSE, Config |-> DefaultShimmerConfig]
  /\ currentPage = 0 /\ tasksPerPage = 0
  /\ width = 0 /\ height = 0
  /\ run = "running" /\ late = 0
  /\ mutations = 0
  /\ SearchIdle
  /\ TimerIdle
  /\ AnimIdle
  /\ WizIdle

\* ---------------------------------------------------------------- navigation
\* What Update returns: the model, whether the command is tea.Quit, and
\* whether the call panicked (integer division by tasksPerPage = 0).  After a
\* panic the returned model is never stored; only what the call already wrote
\* through the shimmer pointer remains.
Result(m, quit, panic) == [m |-> m, quit |-> quit, panic |-> panic]

Ok(m) == Result(m, FALSE, FALSE)

\* mutant: moving up from the first row wraps to the last row
moveSelectionUp_Wrap(m) ==
  IF m.selectedTask > 0
    THEN Ok([m EXCEPT !.selectedTask = m.selectedTask - 1,
                      !.shimmer = ShimmerReset(m.shimmer)])
    ELSE Ok([m EXCEPT !.selectedTask = Len(m.tasks) - 1,
                      !.shimmer = ShimmerReset(m.shimmer)])

moveSelectionUp(m) ==
  IF m.selectedTask > 0
    THEN LET sel == m.selectedTask - 1
             currentPageStart == m.currentPage * m.tasksPerPage
         IN Ok([m EXCEPT !.selectedTask = sel,
                         !.shimmer = ShimmerReset(m.shimmer),
                         !.currentPage = IF sel < currentPageStart /\ m.currentPage > 0
                                           THEN m.currentPage - 1 ELSE m.currentPage])
    ELSE Ok(m)

moveSelectionDown(m) ==
  IF m.selectedTask < Len(m.tasks) - 1
    THEN IF m.tasksPerPage = 0
           THEN Result([m EXCEPT !.shimmer = ShimmerReset(m.shimmer)], FALSE, TRUE)
           ELSE LET sel == m.selectedTask + 1
                    currentPageEnd == Min((m.currentPage + 1) * m.tasksPerPage - 1,
                                          Len(m.tasks) - 1)
                    maxPages == (Len(m.tasks) + m.tasksPerPage - 1) \div m.tasksPerPage
                IN Ok([m EXCEPT !.selectedTask = sel,
                                !.shimmer = ShimmerReset(m.shimmer),
                                !.currentPage = IF sel > currentPageEnd /\ m.currentPage < maxPages - 1
                                                  THEN m.currentPage + 1 ELSE m.currentPage])
    ELSE Ok(m)

prevPage(m) ==
  IF m.currentPage > 0
    THEN LET page == m.currentPage - 1
             maxIndex == Min((page + 1) * m.tasksPerPage - 1, Len(m.tasks) - 1)
             minIndex == page * m.tasksPerPage
             s1 == IF m.selectedTask > maxIndex THEN maxIndex ELSE m.selectedTask
             s2 == IF s1 < minIndex THEN minIndex ELSE s1
         IN Ok([m EXCEPT !.currentPage = page, !.selectedTask = s2,
                         !.shimmer = ShimmerReset(m.shimmer)])
    ELSE Ok(m)

nextPage(m) ==
  IF m.tasksPerPage = 0
    THEN Result(m, FALSE, TRUE)
    ELSE LET maxPages == (Len(m.tasks) + m.tasksPerPage - 1) \div m.tasksPerPage
         IN IF m.currentPage < maxPages - 1
              THEN LET page == m.currentPage + 1
                       minIndex == page * m.tasksPerPage
                       maxIndex == Min((page + 1) * m.tasksPerPage - 1, Len(m.tasks) - 1)
                       s1 == IF m.selectedTask < minIndex THEN minIndex ELSE m.selectedTask
                       s2 == IF s1 > maxIndex THEN maxIndex ELSE s1
                   IN Ok([m EXCEPT !.currentPage = page, !.selectedTask = s2,
                                   !.shimmer = ShimmerReset(m.shimmer)])
              ELSE Ok(m)

\* ---------------------------------------------------------------- search box
\* keys the search box drops before looking at the character
SearchIgnoreList ==
  {"up", "down", "left", "right", "k", "j", "h", "l",
   "home", "end", "pgup", "pgdown", "delete", "insert",
   "tab", "shift+tab", "ctrl+c", "ctrl+d", "ctrl+z",
   "f1", "f2", "f3", "f4", "f5", "f6", "f7", "f8", "f9", "f10", "f11", "f12"}

\* keys whose name is one printable ASCII character (code 32..126)
PrintableKeys == {"a", " ", "k"}

\* keys pressed in the search box
SearchBoxKeys == PrintableKeys \cup {"esc", "enter", "backspace", "up", "ctrl+c"}

\* keys pressed with table focus
TableKeys ==
  {"ctrl+c", "q", "esc", "up", "k", "down", "left", "right", "/", "enter"}

\* mutant: the search runs over the displayed list
applyLiveSearch_OverDisplayed(m) ==
  [m EXCEPT !.tasks = IF m.searchQuery = <<>> THEN m.originalTasks
                      ELSE searchInMemoryTasks(m.searchQuery, m.tasks),
            !.selectedTask = 0,
            !.currentPage = 0]

\* applyLiveSearch: m.searchQuery is already updated
applyLiveSearch(m) ==
  [m EXCEPT !.tasks = IF m.searchQuery = <<>> THEN m.originalTasks
                      ELSE searchInMemoryTasks(m.searchQuery, m.originalTasks),
            !.selectedTask = 0,
            !.currentPage = 0]

\* what esc writes, in the search box and with table focus
restoreFullList(m) ==
  [m EXCEPT !.focus = "table", !.searchActive = FALSE, !.searchPersisted = FALSE,
            !.searchQuery = <<>>, !.tasks = m.originalTasks,
            !.selectedTask = 0, !.currentPage = 0,
            !.shimmer = ShimmerSetActive(m.shimmer, TRUE)]

\* mutant: enter clears the query when it closes the search box
handleSearchKeys_EnterClears(m, key) ==
  CASE key = "esc" -> Ok(restoreFullList(m))
    [] key = "enter" ->
         Ok([m EXCEPT !.focus = "table", !.searchActive = FALSE,
                      !.searchPersisted = TRUE, !.searchQuery = <<>>,
                      !.shimmer = ShimmerSetActive(m.shimmer, TRUE)])
    [] key = "backspace" ->
         IF Len(m.searchQuery) > 0
           THEN Ok(applyLiveSearch(
                  [m EXCEPT !.searchQuery = SubSeq(m.searchQuery, 1, Len(m.searchQuery) - 1)]))
           ELSE Ok(m)
    [] OTHER ->
         IF key \in SearchIgnoreList THEN Ok(m)
         ELSE IF key \in PrintableKeys
                THEN Ok(applyLiveSearch([m EXCEPT !.searchQuery = Append(m.searchQuery, key)]))
                ELSE Ok(m)

handleSearchKeys(m, key) ==
  CASE key = "esc" -> Ok(restoreFullList(m))
    [] key = "enter" ->
         Ok([m EXCEPT !.focus = "table", !.searchActive = FALSE,
                      !.searchPersisted = TRUE,
                      !.shimmer = ShimmerSetActive(m.shimmer, TRUE)])
    [] key = "backspace" ->
         IF Len(m.searchQuery) > 0
           THEN Ok(applyLiveSearch(
                  [m EXCEPT !.searchQuery = SubSeq(m.searchQuery, 1, Len(m.searchQuery) - 1)]))
           ELSE Ok(m)
    [] OTHER ->
         IF key \in SearchIgnoreList THEN Ok(m)
         ELSE IF key \in PrintableKeys
                THEN Ok(applyLiveSearch([m EXCEPT !.searchQuery = Append(m.searchQuery, key)]))
                ELSE Ok(m)

\* mutant: esc with table focus only looks at searchActive
tableKey_EscOnlyActive(m, key) ==
  CASE key \in {"ctrl+c", "q", "esc"} ->
         IF key = "esc" /\ m.searchActive
           THEN Ok(restoreFullList(m))
           ELSE Result(m, TRUE, FALSE)
    [] key \in {"up", "k"} -> moveSelectionUp(m)
    [] key \in {"down", "j"} -> moveSelectionDown(m)
    [] key \in {"left", "h"} -> prevPage(m)
    [] key \in {"right", "l"} -> nextPage(m)
    [] key = "/" ->
         Ok([m EXCEPT !.focus = "search", !.searchActive = TRUE,
                      !.shimmer = ShimmerSetActive(m.shimmer, FALSE)])
    [] OTHER -> Ok(m)

\* the key switch of Update with table focus, store hotkeys apart
tableKey(m, key) ==
  CASE key \in {"ctrl+c", "q", "esc"} ->
         IF key = "esc" /\ (m.searchActive \/ m.searchPersisted)
           THEN Ok(restoreFullList(m))
           ELSE Result(m, TRUE, FALSE)
    [] key \in {"up", "k"} -> moveSelectionUp(m)
    [] key \in {"down", "j"} -> moveSelectionDown(m)
    [] key \in {"left", "h"} -> prevPage(m)
    [] key \in {"right", "l"} -> nextPage(m)
    [] key = "/" ->
         Ok([m EXCEPT !.focus = "search", !.searchActive = TRUE,
                      !.shimmer = ShimmerSetActive(m.shimmer, FALSE)])
    [] OTHER -> Ok(m)

\* Update on a key message other than the store hotkeys
UpdateKey(m, key) ==
  IF m.focus = "search" THEN handleSearchKeys(m, key) ELSE tableKey(m, key)

\* mutant: a resize goes back to the first page
UpdateWindowSize_Repage(m, sz) ==
  Ok([m EXCEPT !.width = sz.w, !.height = sz.h,
               !.tasksPerPage = AvailableHeight(sz.h),
               !.currentPage = 0])

\* Update on tea.WindowSizeMsg
UpdateWindowSize(m, sz) ==
  Ok([m EXCEPT !.width = sz.w, !.height = sz.h,
               !.tasksPerPage = AvailableHeight(sz.h)])

\* the model the runtime holds after an Update call that returned r
Delivered(r) == IF r.panic THEN [M EXCEPT !.shimmer = r.m.shimmer] ELSE r.m

\* the runtime acts on what Update returned; tea.Quit ends the program with
\* a message of its own, and a message read before that one is still handled
Deliver(r) ==
  /\ run' = IF r.panic THEN "panic" ELSE IF r.quit THEN "quit" ELSE run
  /\ late' = IF run = "quit" THEN late + 1 ELSE late
  /\ Keep(Delivered(r))
  /\ UNCHANGED <<db, mutations, searchVars, timerVars, animVars, wizVars>>

\* the program hands messages to Update: it runs, or it has returned
\* tea.Quit and the quit message has not been read yet
Handles == run = "running" \/ (run = "quit" /\ late < MaxLate)

TableFocus == Handles /\ focus = "table"

SearchFocus == Handles /\ focus = "search"

\* ---------------------------------------------------------------- messages
Resize ==
  /\ Handles
  /\ \E sz \in WindowSizes : Deliver(UpdateWindowSize(M, sz))

MoveSelectionUp ==
  /\ TableFocus
  /\ \E key \in {"up", "k"} : Deliver(UpdateKey(M, key))

MoveSelectionDown ==
  /\ TableFocus
  /\ Deliver(UpdateKey(M, "down"))

PrevPage ==
  /\ TableFocus
  /\ Deliver(UpdateKey(M, "left"))

NextPage ==
  /\ TableFocus
  /\ Deliver(UpdateKey(M, "right"))

\* esc with table focus: leaves an edited or applied search, else quits
TableEscape ==
  /\ TableFocus
  /\ Deliver(UpdateKey(M, "esc"))

TableQuit ==
  /\ TableFocus
  /\ \E key \in {"ctrl+c", "q"} : Deliver(UpdateKey(M, key))

EnterSearch ==
  /\ TableFocus
  /\ Deliver(UpdateKey(M, "/"))

ExitSearch ==
  /\ SearchFocus
  /\ Deliver(UpdateKey(M, "esc"))

CommitSearch ==
  /\ SearchFocus
  /\ Deliver(UpdateKey(M, "enter"))

Backspace ==
  /\ SearchFocus
  /\ Deliver(UpdateKey(M, "backspace"))

TypeCharacter ==
  /\ SearchFocus
  /\ Len(searchQuery) < MaxQuery
  /\ \E key \in PrintableKeys \cup {"up", "ctrl+c"} : Deliver(UpdateKey(M, key))

\* View(): renderTaskTable renders the rows of the current page; a selected
\* row that is not on the rendered page is not rendered
SelectedRowRendered(m) ==
  /\ m.currentPage * m.tasksPerPage <= m.selectedTask
  /\ m.selectedTask < Min(m.currentPage * m.tasksPerPage + m.tasksPerPage, Len(m.tasks))

\* the length RenderShimmerText passes to Update for the selected row: the
\* titles of the catalog are shorter than every title column, so the title
\* is shown whole
SelectedTitleLen(m) == ByteLen(m.tasks[m.selectedTask + 1].Title)

\* View() called when the tick interval has elapsed since the last update:
\* rendering the title of the selected row advances the shimmer; an empty
\* title is rendered without an update.  At most MaxShimmerSteps updates
\* follow a reset.
Renders ==
  /\ width # 0 /\ height # 0
  /\ SelectedRowRendered(M)
  /\ SelectedTitleLen(M) > 0
  /\ shimmer.Active /\ ~shimmer.Config.ReduceMotion /\ ~shimmer.IsPaused
  /\ \E k \in 0..(MaxShimmerSteps - 1) :
       shimmer.Center = CenterAfter(shimmer.Config, SelectedTitleLen(M), k)

\* the runtime renders after every Update, the one that returned tea.Quit
\* included
View ==
  /\ run \in {"running", "quit"}
  /\ Renders
  /\ shimmer' = ShimmerAdvance(shimmer, SelectedTitleLen(M))
  /\ UNCHANGED <<width, height, originalTasks, tasks, selectedTask, focus,
                 searchActive, searchQuery, searchPersisted, currentPage,
                 tasksPerPage, db, run, late, mutations, searchVars, timerVars,
                 animVars, wizVars>>

\* the quit message is read: the program renders the final model once more
\* (an update of the shimmer when the tick interval has elapsed, none
\* otherwise) and ends
Exit ==
  /\ run = "quit"
  /\ run' = "exited"
  /\ \/ UNCHANGED shimmer
     \/ Renders /\ shimmer' = ShimmerAdvance(shimmer, SelectedTitleLen(M))
  /\ UNCHANGED <<width, height, originalTasks, tasks, selectedTask, focus,
                 searchActive, searchQuery, searchPersisted, currentPage,
                 tasksPerPage, db, late, mutations, searchVars, timerVars,
                 animVars, wizVars>>

\* ---------------------------------------------------------------- store hotkeys
\* refreshTasks: the displayed list is replaced by GetTasks(), the selection
\* clamped, the shimmer reset; on a fetch error the model is returned as is
refreshTasks(m, store, getErr) ==
  IF getErr THEN m
  ELSE LET fresh == GetTasks(store)
       IN [m EXCEPT !.tasks = fresh,
                    !.selectedTask =
                       IF m.selectedTask >= Len(fresh)
                         THEN (IF Len(fresh) > 0 THEN Len(fresh) - 1 ELSE 0)
                         ELSE m.selectedTask,
                    !.shimmer = ShimmerReset(m.shimmer)]

\* the status update toggleDoneTask asks the task service for
toggleDoneCall(task, store, ioErr) ==
  IF task.Status = StatusDone THEN MarkTaskUndone(store, task.ID, ioErr)
  ELSE MarkTaskDone(store, task.ID, ioErr)

\* the status update archiveTask asks the task service for
archiveCall(task, store, ioErr) ==
  IF task.Status = StatusArchived THEN UnarchiveTask(store, task.ID, ioErr)
  ELSE ArchiveTask(store, task.ID, ioErr)

\* a store hotkey whose status update returned r
StoreHotkey(r, getErr) ==
  IF r.ok
    THEN /\ mutations < MaxMutations
         /\ mutations' = mutations + 1
         /\ db' = r.store
         /\ Keep(refreshTasks(M, r.store, getErr))
         /\ late' = IF run = "quit" THEN late + 1 ELSE late
         /\ UNCHANGED <<run, searchVars, timerVars, animVars, wizVars>>
    ELSE UNCHANGED vars

\* "d" with table focus
ToggleDone ==
  /\ TableFocus
  /\ Len(tasks) > 0 /\ selectedTask < Len(tasks)
  /\ \E ioErr \in BOOLEAN, getErr \in BOOLEAN :
       StoreHotkey(toggleDoneCall(tasks[selectedTask + 1], db, ioErr), getErr)

\* "a" with table focus
ToggleArchive ==
  /\ TableFocus
  /\ Len(tasks) > 0 /\ selectedTask < Len(tasks)
  /\ \E ioErr \in BOOLEAN, getErr \in BOOLEAN :
       StoreHotkey(archiveCall(tasks[selectedTask + 1], db, ioErr), getErr)

\* mutant: the list is refreshed whether or not the status update succeeded
hotkeyOutcome_RefreshAlways(m, r, getErr) ==
  [m |-> refreshTasks(m, r.store, getErr),
   store |-> r.store, ok |-> r.ok, quit |-> FALSE]

\* what a store hotkey returns once its status update returned r: the model
\* as it was when the update failed, the refreshed model otherwise; the
\* command is nil either way
hotkeyOutcome(m, r, getErr) ==
  [m |-> IF r.ok THEN refreshTasks(m, r.store, getErr) ELSE m,
   store |-> r.store, ok |-> r.ok, quit |-> FALSE]

\* toggleDoneTask on the model m and the store
toggleDoneTask(m, store, ioErr, getErr) ==
  IF Len(m.tasks) = 0 \/ m.selectedTask >= Len(m.tasks)
    THEN [m |-> m, store |-> store, ok |-> FALSE, quit |-> FALSE]
    ELSE hotkeyOutcome(m, toggleDoneCall(m.tasks[m.selectedTask + 1], store, ioErr), getErr)

\* archiveTask on the model m and the store
archiveTask(m, store, ioErr, getErr) ==
  IF Len(m.tasks) = 0 \/ m.selectedTask >= Len(m.tasks)
    THEN [m |-> m, store |-> store, ok |-> FALSE, quit |-> FALSE]
    ELSE hotkeyOutcome(m, archiveCall(m.tasks[m.selectedTask + 1], store, ioErr), getErr)

Next ==
  \/ Resize
  \/ View
  \/ Exit
  \/ MoveSelectionUp
  \/ MoveSelectionDown
  \/ PrevPage
  \/ NextPage
  \/ TableEscape
  \/ TableQuit
  \/ EnterSearch
  \/ ToggleDone
  \/ ToggleArchive
  \/ ExitSearch
  \/ CommitSearch
  \/ Backspace
  \/ TypeCharacter

Spec == Init /\ [][Next]_vars

\* ---------------------------------------------------------------- ranked search on its own
\* The search functions applied to arbitrary small task lists and queries.
SearchTitles ==
  { <<"A">>, <<"a","B">>, <<"B","a">>, <<"B","a","B">>, <<"B">>, <<"a"," ">> }

SearchProjects == { <<>>, <<"a","B">> }

SearchPool ==
  { [ID |-> 0, Title |-> t, Project |-> p, JiraID |-> <<>>, Note |-> <<>>,
     Tags |-> << >>, Priority |-> 0, Status |-> StatusTodo]
      : t \in SearchTitles, p \in SearchProjects }
  \cup { [ID |-> 0, Title |-> <<"B">>, Project |-> <<>>, JiraID |-> <<"a", "B">>,
          Note |-> <<>>, Tags |-> << <<"B", "a">> >>, Priority |-> 2,
          Status |-> StatusArchived] }

\* lists of at most MaxSearchTasks tasks, the task at position i having id i
TaskLists ==
  UNION { { [i \in 1..n |-> [f[i] EXCEPT !.ID = i]] : f \in [1..n -> SearchPool] }
            : n \in 0..MaxSearchTasks }

QueryChars == {"a", "B", " "}

Queries == UNION { [1..n -> QueryChars] : n \in 0..MaxSearchQuery }

\* the queries of the command line: an argument holds any character, the
\* search box only the printable ones of one byte
CommandLineQueries ==
  Queries \cup { <<"\f">>, <<"\f", "a">>, <<"a", "U+3000">>, <<"U+00A0", "B">>,
                 <<"U+00C9", "a">> }

\* the list view idle: no view is open while the search runs on its own
ListIdle ==
  /\ width = 0 /\ height = 0
  /\ originalTasks = <<>> /\ tasks = <<>>
  /\ selectedTask = 0 /\ focus = "table"
  /\ searchActive = FALSE /\ searchQuery = <<>> /\ searchPersisted = FALSE
  /\ shimmer = [Active |-> FALSE, Center |-> FloatZero, IsPaused |-> FALSE,
               Config |-> DefaultShimmerConfig]
  /\ currentPage = 0 /\ tasksPerPage = 0
  /\ db = [i \in TaskIds |-> CatalogStatus(i)]
  /\ run = "idle" /\ late = 0
  /\ mutations = 0

SearchInit ==
  /\ ListIdle
  /\ TimerIdle
  /\ AnimIdle
  /\ WizIdle
  /\ sTasks \in TaskLists
  /\ sQuery \in CommandLineQueries
  /\ sResult = <<>>
  /\ sPrev = <<>>
  /\ sPhase = "input"

\* a list view in live search on sTasks with query sQuery, showing sResult
LiveModel ==
  [M EXCEPT !.focus = "search", !.searchActive = TRUE, !.searchQuery = sQuery,
            !.originalTasks = sTasks, !.tasks = sResult]

\* searchInMemoryTasks(sQuery, sTasks)
RunSearch ==
  /\ sPhase = "input"
  /\ sQuery \in Queries
  /\ sResult' = searchInMemoryTasks(sQuery, sTasks)
  /\ sPhase' = "ranked"
  /\ UNCHANGED <<listVars, timerVars, animVars, wizVars, sTasks, sQuery, sPrev>>

\* applyLiveSearch with sQuery in the search box
RunLiveSearch ==
  /\ sPhase = "input"
  /\ sQuery \in Queries
  /\ sResult' = applyLiveSearch([LiveModel EXCEPT !.tasks = sTasks]).tasks
  /\ sPhase' = "live"
  /\ UNCHANGED <<listVars, timerVars, animVars, wizVars, sTasks, sQuery, sPrev>>

\* backspace in the search box after a live search
LiveBackspace ==
  /\ sPhase = "live"
  /\ sQuery # <<>>
  /\ LET m == handleSearchKeys(LiveModel, "backspace").m
     IN /\ sQuery' = m.searchQuery
        /\ sResult' = m.tasks
  /\ sPrev' = sResult
  /\ sPhase' = "backspaced"
  /\ UNCHANGED <<listVars, timerVars, animVars, wizVars, sTasks>>

\* db.SearchTasks(sQuery, opts), the store returning sTasks or failing
RunSearchTasks ==
  /\ sPhase = "input"
  /\ \E ok \in BOOLEAN :
       LET r == SearchTasks(sQuery, DbSearch(ok, IF ok THEN sTasks ELSE <<>>))
       IN /\ sResult' = r.tasks
          /\ sPhase' = IF r.ok THEN "offline" ELSE "failed"
  /\ UNCHANGED <<listVars, timerVars, animVars, wizVars, sTasks, sQuery, sPrev>>

SearchNext ==
  \/ RunSearch
  \/ RunSearchTasks
  \/ RunLiveSearch
  \/ LiveBackspace

SearchSpec == SearchInit /\ [][SearchNext]_vars

\* ---------------------------------------------------------------- sessions and the timer view
\* Time is counted in half seconds.  A time.Duration is a number of half
\* seconds, negative when the wall clock was set back in between.
HalfSecondsPerSecond == 2
HalfSecondsPerMinute == 120
HalfSecondsPerHour == 7200

\* int(x / unit): Go's conversion of a float to int truncates toward zero
Trunc(x, unit) == IF x >= 0 THEN x \div unit ELSE -((-x) \div unit)

\* a % b of Go: the remainder has the sign of a
Rem(a, b) == IF a >= 0 THEN a % b ELSE -((-a) % b)

\* the ids a start command is given: two tasks of the store and one that
\* is not in it
StartArgs == {1, 2, MaxTasks + 1}

\* the ids wrok done and wrok archive are given
DoneArgs == {1, MaxTasks + 1}

\* the --no-ui flag of wrok start: the first terminal starts with or without
\* the timer view, the second always without
NoUIFlags(p) == IF p = 1 THEN BOOLEAN ELSE {TRUE}

\* the wall clock moves forward by these amounts ...
ClockForward == {119, 7201}
\* ... and is set back by this one (clock synchronisation)
ClockBack == {3}

\* rows with finished_at IS NULL
ActiveSessions(ss) == { i \in DOMAIN ss : ss[i].FinishedAt = <<>> }

\* First(): the row with the smallest id among those
FirstActive(ss) == CHOOSE i \in ActiveSessions(ss) : \A j \in ActiveSessions(ss) : i <= j

\* DB.Where("finished_at IS NULL").First(&session): the id of the row found,
\* 0 when the statement returns an error (no row, or the query failed)
FirstActiveRow(ss, queryErr) ==
  IF queryErr \/ ActiveSessions(ss) = {} THEN 0 ELSE FirstActive(ss)

\* StartSession up to the decision to create: the task lookup, any error of
\* which is reported as task not found, then the lookup of an active
\* session, any error of which lets the call go on
StartSessionCheck(ss, taskID, taskErr, queryErr) ==
  IF taskErr \/ taskID \notin TaskIds THEN "notfound"
  ELSE IF FirstActiveRow(ss, queryErr) # 0 THEN "conflict"
  ELSE "create"

\* StartSession: the row DB.Create inserts
CreateSession(ss, taskID, now) ==
  Append(ss, [TaskID |-> taskID, StartedAt |-> now, FinishedAt |-> <<>>,
              DurationSeconds |-> 0])

\* StartSession run without another process in between
StartSession(ss, taskID, now, taskErr, queryErr, createErr) ==
  LET d == StartSessionCheck(ss, taskID, taskErr, queryErr)
  IN  IF d # "create" THEN [err |-> d, sessions |-> ss]
      ELSE IF createErr THEN [err |-> "createfailed", sessions |-> ss]
      ELSE [err |-> "", sessions |-> CreateSession(ss, taskID, now)]

\* StopActiveSession, DB.Save(&session): the row read as number i is written
\* back whole, finished at the time now that was read after the row
SaveSession(ss, i, now, saveErr) ==
  IF saveErr THEN ss
  ELSE [ss EXCEPT ![i].FinishedAt = <<now>>,
                  ![i].DurationSeconds =
                     Trunc(now - ss[i].StartedAt, HalfSecondsPerSecond)]

\* StopActiveSession run without another process in between
StopActiveSession(ss, now, queryErr, saveErr) ==
  LET i == FirstActiveRow(ss, queryErr)
  IN  IF i = 0 \/ saveErr THEN [ok |-> FALSE, sessions |-> ss, sid |-> 0]
      ELSE [ok |-> TRUE, sid |-> i, sessions |-> SaveSession(ss, i, now, saveErr)]

\* GetActiveSession: the first active session, 0 for none; an error of the
\* query is returned as no session
GetActiveSession(ss, queryErr) == FirstActiveRow(ss, queryErr)

\* MarkTaskDone and ArchiveTask, the check for an active session of the
\* task: TRUE when GetActiveSession returns a session of taskID
StopsSession(ss, taskID, queryErr) ==
  LET a == GetActiveSession(ss, queryErr)
  IN  a # 0 /\ ss[a].TaskID = taskID

\* MarkTaskDone and ArchiveTask after the status check, run without another
\* process in between: the session is stopped when there is one of taskID,
\* and the call fails when stopping fails; fail names the statements that
\* return an error
StopSessionOf(ss, taskID, now, fail) ==
  IF StopsSession(ss, taskID, "active" \in fail)
    THEN LET r == StopActiveSession(ss, now, "first" \in fail, "save" \in fail)
         IN  [ok |-> r.ok /\ "task" \notin fail, sessions |-> r.sessions]
    ELSE [ok |-> "task" \notin fail, sessions |-> ss]

\* the statements of MarkTaskDone and ArchiveTask that can fail once the
\* task is read: GetActiveSession's query, StopActiveSession's query and
\* save, and the save of the task
DoneFailures == SUBSET {"active", "first", "save", "task"}

\* MarkTaskDone(taskID) on a task with this status, with the sessions it
\* leaves; the status it saves is in MarkTaskDone above
MarkTaskDoneSessions(ss, status, taskID, now, fail) ==
  IF status = StatusDone THEN [ok |-> FALSE, sessions |-> ss]
  ELSE StopSessionOf(ss, taskID, now, fail)

\* ArchiveTask(taskID) likewise
ArchiveTaskSessions(ss, status, taskID, now, fail) ==
  IF status = StatusArchived THEN [ok |-> FALSE, sessions |-> ss]
  ELSE StopSessionOf(ss, taskID, now, fail)

\* NewTimerModel(session) when time.Now() returns now: time.Since is
\* time.Now().Sub
NewTimerModel(sid, session, now) ==
  [sid |-> sid, StartedAt |-> session.StartedAt,
   elapsedTime |-> Sub(now, session.StartedAt), timerAnimation |-> 0,
   stopping |-> FALSE, exiting |-> FALSE, timerTicks |-> 0, animationTicks |-> 0]

\* TimerModel.Init: one tick of each kind is scheduled; timerTicks and
\* animationTicks count the ticks scheduled and not yet delivered
TimerModelInit(t) == [t EXCEPT !.timerTicks = 1, !.animationTicks = 1]

\* keys pressed in the timer view
TimerKeys == {"s", "S", "esc", "q", "ctrl+c", "x"}

\* TimerModel.Update on a key message
TimerUpdateKey(t, key) ==
  CASE key \in {"s", "S"} -> [t |-> [t EXCEPT !.stopping = TRUE], quit |-> TRUE]
    [] key \in {"ctrl+c", "esc", "q"} -> [t |-> [t EXCEPT !.exiting = TRUE], quit |-> TRUE]
    [] OTHER -> [t |-> t, quit |-> FALSE]

\* TimerModel.Update on timerTickMsg at wall-clock time now
TimerUpdateTick(t, now) == [t EXCEPT !.elapsedTime = Sub(now, t.StartedAt)]

\* the number of ticks a handler schedules
One(cmd) == IF cmd THEN 1 ELSE 0

\* a tick handler that goes on ticking until the user stops the session
timerTickCmd_UntilStopped(t) == ~t.stopping

\* TimerModel.Update on timerTickMsg: TRUE when it returns the next tick
timerTickCmd(t) == ~t.stopping /\ ~t.exiting

\* frames of the animated timer display
AnimationFrames == 4

\* TimerModel.Update on animationTickMsg
TimerUpdateAnimation(t) ==
  [t EXCEPT !.timerAnimation = (t.timerAnimation + 1) % AnimationFrames]

\* TimerModel.Update on animationTickMsg: TRUE when it returns the next tick
animationTickCmd(t) == ~t.stopping /\ ~t.exiting

\* RunTimerTUI after p.Run returned the final model t: TRUE when it goes on
\* to call StopActiveSession
CallsStop(t, runErr) == ~runErr /\ t.stopping

\* RunTimerTUI after the program returned the final model t, run without
\* another process in between: the store it leaves and the number of
\* StopActiveSession calls it made
AfterRun(t, ss, now, runErr, queryErr, saveErr) ==
  IF CallsStop(t, runErr)
    THEN LET r == StopActiveSession(ss, now, queryErr, saveErr)
         IN  [sessions |-> r.sessions, calls |-> 1, ok |-> r.ok]
    ELSE [sessions |-> ss, calls |-> 0, ok |-> ~runErr]

\* renderBigClock: the three numbers computed from the elapsed time
ClockHours(d) == Trunc(d, HalfSecondsPerHour)
ClockMinutes(d) == Rem(Trunc(d, HalfSecondsPerMinute), 60)
ClockSeconds(d) == Rem(Trunc(d, HalfSecondsPerSecond), 60)

\* renderBigClock: the fields of the time string
TimeFields(d) ==
  IF ClockHours(d) > 0
    THEN <<ClockHours(d), ClockMinutes(d), ClockSeconds(d)>>
    ELSE <<ClockMinutes(d), ClockSeconds(d)>>

\* the list view and the search are idle while session commands run
TimerInit ==
  /\ ListIdle
  /\ SearchIdle
  /\ TimerIdle
  /\ AnimIdle
  /\ WizIdle

\* what the list view holds, untouched by the session commands
viewVars == <<modelVars, run, late, mutations>>

\* time.Now(): the wall clock reading with the monotonic one
Now == [wall |-> clock, mono |-> mono]

\* time passes, on both clocks
ClockAdvance ==
  /\ clockChanges < MaxClockChanges
  /\ \E d \in ClockForward : clock' = clock + d /\ mono' = mono + d
  /\ clockChanges' = clockChanges + 1
  /\ UNCHANGED <<listVars, searchVars, animVars, wizVars, sessions, pc, tm, call>>

\* the wall clock is set back
ClockSetBack ==
  /\ clockChanges < MaxClockChanges
  /\ \E d \in ClockBack : clock' = clock - d
  /\ UNCHANGED mono
  /\ clockChanges' = clockChanges + 1
  /\ UNCHANGED <<listVars, searchVars, animVars, wizVars, sessions, pc, tm, call>>

\* wrok start <id>: StartSession up to its decision; on an error the command
\* prints it and ends
StartCheck(p) ==
  /\ pc[p] = "idle"
  /\ \E taskID \in StartArgs, taskErr \in BOOLEAN, queryErr \in BOOLEAN :
       IF StartSessionCheck(sessions, taskID, taskErr, queryErr) = "create"
         THEN /\ pc' = [pc EXCEPT ![p] = "create"]
              /\ call' = [call EXCEPT ![p] = [NoCall EXCEPT !.cmd = "start",
                                                            !.taskID = taskID]]
         ELSE UNCHANGED <<pc, call>>
  /\ UNCHANGED <<listVars, searchVars, animVars, wizVars, clock, mono, clockChanges,
                 sessions, tm>>

\* StartSession reads the clock and creates the session; when DB.Create
\* fails the command prints the error and ends
StartCreate(p) ==
  /\ pc[p] = "create"
  /\ \E createErr \in BOOLEAN :
       IF createErr
         THEN /\ pc' = [pc EXCEPT ![p] = "idle"]
              /\ call' = [call EXCEPT ![p] = NoCall]
              /\ UNCHANGED sessions
         ELSE /\ Len(sessions) < MaxSessions
              /\ sessions' = CreateSession(sessions, call[p].taskID, clock)
              /\ pc' = [pc EXCEPT ![p] = "open"]
              /\ call' = [call EXCEPT ![p].row = Len(sessions) + 1,
                                       ![p].started = Now]
  /\ UNCHANGED <<listVars, searchVars, animVars, wizVars, clock, mono, clockChanges, tm>>

\* StartSession reloads the session and ignores the error: the session it
\* returns has the start time read back from the row (the wall clock
\* reading as created) or, when the reload failed, the one of the struct
\* it built, with the monotonic reading
Reloaded(row, started, reloadErr) ==
  [StartedAt |-> IF reloadErr THEN started ELSE WallTime(row.StartedAt)]

\* the command after StartSession returned the session: it prints
\* (--no-ui), or RunTimerTUI builds the timer view, reading the clock
\* again, and the program starts
StartOpen(p) ==
  /\ pc[p] = "open"
  /\ \E noUI \in NoUIFlags(p), reloadErr \in BOOLEAN :
       IF noUI
         THEN /\ pc' = [pc EXCEPT ![p] = "idle"]
              /\ UNCHANGED tm
         ELSE /\ pc' = [pc EXCEPT ![p] = "timer"]
              /\ tm' = [tm EXCEPT ![p] =
                          TimerModelInit(NewTimerModel(call[p].row,
                            Reloaded(sessions[call[p].row], call[p].started,
                                     reloadErr), Now))]
  /\ call' = [call EXCEPT ![p] = NoCall]
  /\ UNCHANGED <<listVars, searchVars, animVars, wizVars, clock, mono, clockChanges, sessions>>

\* timerTickMsg in the timer view of p; a tick that is pending when the view
\* asks to quit is still handled when it is read before the quit message
TimerTick(p) ==
  /\ pc[p] \in {"timer", "quit"}
  /\ tm[p].timerTicks > 0
  /\ LET t == TimerUpdateTick(tm[p], Now)
     IN tm' = [tm EXCEPT ![p] = [t EXCEPT !.timerTicks = @ - 1 + One(timerTickCmd(t))]]
  /\ UNCHANGED <<listVars, searchVars, animVars, wizVars, clock, mono, clockChanges,
                 sessions, pc, call>>

\* animationTickMsg in the timer view of p, likewise
AnimationTick(p) ==
  /\ pc[p] \in {"timer", "quit"}
  /\ tm[p].animationTicks > 0
  /\ LET t == TimerUpdateAnimation(tm[p])
     IN tm' = [tm EXCEPT ![p] = [t EXCEPT !.animationTicks = @ - 1 + One(animationTickCmd(t))]]
  /\ UNCHANGED <<listVars, searchVars, animVars, wizVars, clock, mono, clockChanges,
                 sessions, pc, call>>

\* a key in the timer view of p; tea.Quit ends the program with a message
\* of its own, and a key read before that message is still handled
TimerKey(p) ==
  /\ pc[p] \in {"timer", "quit"}
  /\ \E key \in TimerKeys :
       LET r == TimerUpdateKey(tm[p], key)
       IN /\ tm' = [tm EXCEPT ![p] = r.t]
          /\ pc' = [pc EXCEPT ![p] = IF r.quit THEN "quit" ELSE pc[p]]
  /\ UNCHANGED <<listVars, searchVars, animVars, wizVars, clock, mono, clockChanges,
                 sessions, call>>

\* StopActiveSession up to its save: the first active row and then the
\* clock are read; an error of the query is returned as no active session
StopRead(p, queryErr, next) ==
  LET i == FirstActiveRow(sessions, queryErr)
  IN  IF i = 0
        THEN /\ pc' = [pc EXCEPT ![p] = "idle"]
             /\ call' = [call EXCEPT ![p] = NoCall]
        ELSE /\ pc' = [pc EXCEPT ![p] = "save"]
             /\ call' = [call EXCEPT ![p] = [next EXCEPT !.row = i, !.now = clock]]

\* RunTimerTUI after p.Run returned: with an error of the program (which
\* can end it at any time) or without stopping set the command ends;
\* otherwise StopActiveSession is called
TimerReturn(p) ==
  /\ pc[p] \in {"timer", "quit"}
  /\ \E runErr \in BOOLEAN, queryErr \in BOOLEAN :
       /\ pc[p] = "timer" => runErr
       /\ IF CallsStop(tm[p], runErr)
            THEN StopRead(p, queryErr, [NoCall EXCEPT !.cmd = "stop"])
            ELSE /\ pc' = [pc EXCEPT ![p] = "idle"]
                 /\ UNCHANGED call
  /\ tm' = [tm EXCEPT ![p] = NoTimer]
  /\ UNCHANGED <<listVars, searchVars, animVars, wizVars, clock, mono, clockChanges, sessions>>

\* wrok stop: StopActiveSession up to its save
StopCommand(p) ==
  /\ pc[p] = "idle"
  /\ \E queryErr \in BOOLEAN :
       StopRead(p, queryErr, [NoCall EXCEPT !.cmd = "stop"])
  /\ UNCHANGED <<listVars, searchVars, animVars, wizVars, clock, mono, clockChanges,
                 sessions, tm>>

\* StopActiveSession, DB.Save: the row read before is written, whatever
\* happened to it since; MarkTaskDone and ArchiveTask go on to save the
\* task, and every caller ends on an error
StopSave(p) ==
  /\ pc[p] = "save"
  /\ \E saveErr \in BOOLEAN :
       /\ sessions' = SaveSession(sessions, call[p].row, call[p].now, saveErr)
       /\ IF ~saveErr /\ call[p].cmd \in {"done", "archive"}
            THEN /\ pc' = [pc EXCEPT ![p] = "task"]
                 /\ call' = [call EXCEPT ![p].row = 0, ![p].now = 0]
            ELSE /\ pc' = [pc EXCEPT ![p] = "idle"]
                 /\ call' = [call EXCEPT ![p] = NoCall]
  /\ UNCHANGED <<listVars, searchVars, animVars, wizVars, clock, mono, clockChanges, tm>>

\* the status MarkTaskDone and ArchiveTask refuse and then save
DoneStatus(cmd) == IF cmd = "done" THEN StatusDone ELSE StatusArchived

\* wrok done <id> and wrok archive <id>, MarkTaskDone and ArchiveTask up to
\* the status check: the task is read, and the call ends when it is missing
\* or has the status already
DoneLookup(p) ==
  /\ pc[p] = "idle"
  /\ \E cmd \in {"done", "archive"}, taskID \in DoneArgs, taskErr \in BOOLEAN :
       IF taskErr \/ taskID \notin TaskIds \/ db[taskID] = DoneStatus(cmd)
         THEN UNCHANGED <<pc, call>>
         ELSE /\ pc' = [pc EXCEPT ![p] = "active"]
              /\ call' = [call EXCEPT ![p] = [NoCall EXCEPT !.cmd = cmd,
                                                            !.taskID = taskID]]
  /\ UNCHANGED <<listVars, searchVars, animVars, wizVars, clock, mono, clockChanges,
                 sessions, tm>>

\* MarkTaskDone and ArchiveTask, GetActiveSession: a session of the task is
\* to be stopped, anything else goes on to the save of the task
DoneGetActive(p) ==
  /\ pc[p] = "active"
  /\ \E queryErr \in BOOLEAN :
       pc' = [pc EXCEPT ![p] = IF StopsSession(sessions, call[p].taskID, queryErr)
                                 THEN "stop" ELSE "task"]
  /\ UNCHANGED <<listVars, searchVars, animVars, wizVars, clock, mono, clockChanges,
                 sessions, tm, call>>

\* MarkTaskDone and ArchiveTask call StopActiveSession: up to its save
DoneStopRead(p) ==
  /\ pc[p] = "stop"
  /\ \E queryErr \in BOOLEAN : StopRead(p, queryErr, call[p])
  /\ UNCHANGED <<listVars, searchVars, animVars, wizVars, clock, mono, clockChanges,
                 sessions, tm>>

\* MarkTaskDone and ArchiveTask, DB.Save(task): the task is written with its
\* new status
TaskSave(p) ==
  /\ pc[p] = "task"
  /\ \E saveErr \in BOOLEAN :
       db' = IF saveErr THEN db
             ELSE [db EXCEPT ![call[p].taskID] = DoneStatus(call[p].cmd)]
  /\ pc' = [pc EXCEPT ![p] = "idle"]
  /\ call' = [call EXCEPT ![p] = NoCall]
  /\ UNCHANGED <<viewVars, searchVars, animVars, wizVars, clock, mono, clockChanges,
                 sessions, tm>>

TimerNext ==
  \/ ClockAdvance
  \/ ClockSetBack
  \/ \E p \in Procs : StartCheck(p)
  \/ \E p \in Procs : StartCreate(p)
  \/ \E p \in Procs : StartOpen(p)
  \/ \E p \in Procs : TimerTick(p)
  \/ \E p \in Procs : AnimationTick(p)
  \/ \E p \in Procs : TimerKey(p)
  \/ \E p \in Procs : TimerReturn(p)
  \/ \E p \in Procs : StopCommand(p)
  \/ \E p \in Procs : StopSave(p)
  \/ \E p \in Procs : DoneLookup(p)
  \/ \E p \in Procs : DoneGetActive(p)
  \/ \E p \in Procs : DoneStopRead(p)
  \/ \E p \in Procs : TaskSave(p)

TimerSpec == TimerInit /\ [][TimerNext]_vars

\* ---------------------------------------------------------------- the shimmer animation
\* time.Time{}: the zero time, before every reading of the clock
ZeroTime == -1

\* NewShimmerState(config) at time now
NewShimmerState(config, now) ==
  [Center |-> FloatZero, LastUpdate |-> now,
   Active |-> config.Enabled /\ ~config.ReduceMotion,
   VisibleLen |-> 0, Config |-> config,
   IsPaused |-> FALSE, PauseStartTime |-> ZeroTime]

\* Update that starts the new cycle at the first glyph
ShimmerUpdate_RestartAtZero(s, visibleLen, now) ==
  IF ~s.Active \/ s.Config.ReduceMotion THEN s
  ELSE IF now - s.LastUpdate < s.Config.SpeedMs THEN s
  ELSE IF visibleLen <= 0 THEN [s EXCEPT !.VisibleLen = visibleLen]
  ELSE IF s.IsPaused
    THEN IF now - s.PauseStartTime >= s.Config.PauseBetweenMs
           THEN [s EXCEPT !.VisibleLen = visibleLen, !.IsPaused = FALSE,
                          !.Center = FloatZero, !.LastUpdate = now]
           ELSE [s EXCEPT !.VisibleLen = visibleLen, !.LastUpdate = now]
  ELSE LET c == FloatAdd(s.Center, Velocity(s.Config, visibleLen))
           mx == MaxCenter(s.Config, visibleLen)
       IN  IF FloatGeq(c, mx)
             THEN [s EXCEPT !.VisibleLen = visibleLen, !.IsPaused = TRUE,
                            !.PauseStartTime = now, !.Center = mx,
                            !.LastUpdate = now]
             ELSE [s EXCEPT !.VisibleLen = visibleLen, !.Center = c,
                            !.LastUpdate = now]

\* ShimmerState.Update(visibleLen) at time now
ShimmerUpdate(s, visibleLen, now) ==
  IF ~s.Active \/ s.Config.ReduceMotion THEN s
  ELSE IF now - s.LastUpdate < s.Config.SpeedMs THEN s
  ELSE IF visibleLen <= 0 THEN [s EXCEPT !.VisibleLen = visibleLen]
  ELSE IF s.IsPaused
    THEN IF now - s.PauseStartTime >= s.Config.PauseBetweenMs
           THEN [s EXCEPT !.VisibleLen = visibleLen, !.IsPaused = FALSE,
                          !.Center = StartCenter(s.Config, visibleLen),
                          !.LastUpdate = now]
           ELSE [s EXCEPT !.VisibleLen = visibleLen, !.LastUpdate = now]
  ELSE LET a == ShimmerAdvance(s, visibleLen)
       IN  [a EXCEPT !.VisibleLen = visibleLen, !.LastUpdate = now,
                     !.PauseStartTime = IF a.IsPaused THEN now ELSE @]

\* ShimmerState.Reset at time now: ShimmerReset and the two time stamps
ShimmerResetAt(s, now) ==
  [ShimmerReset(s) EXCEPT !.LastUpdate = now, !.PauseStartTime = ZeroTime]

\* RenderShimmerText(text, maxWidth) at time now: the state it leaves
RenderShimmerText(s, textLen, maxWidth, now) ==
  IF VisibleTextLen(textLen, maxWidth) = 0
    THEN s
    ELSE ShimmerUpdate(s, VisibleTextLen(textLen, maxWidth), now)

\* ListModel.Init: TRUE when it returns a tick command
ListInitCmd(s) == ShouldTick(s)

\* ListModel.Update(shimmerTickMsg): TRUE when it returns a tick command
shimmerTickCmd(fc, s) == fc = "table" /\ ShouldTick(s)

\* a key handler that starts the ticking again when it makes the shimmer
\* active
focusKeyCmd_Restart(s) == ShouldTick(s)

\* ListModel.Update on "/" and handleSearchKeys on esc and enter: the focus
\* changes and the command returned is nil, no tick
focusKeyCmd(s) == FALSE

\* lengths of the titles rendered and the widths they are rendered in
TextLens == {0, 2, 7}
TitleWidths == {5}

\* delays between two events of the view, in milliseconds
AnimDelays == {50, 100, 500}

\* the configurations a ShimmerState can be built with
ShimmerConfigs ==
  { [DefaultShimmerConfig EXCEPT !.Enabled = e, !.ReduceMotion = r] :
      e \in BOOLEAN, r \in BOOLEAN }

\* a list view opens: NewShimmerState and the command of Init
AnimInit ==
  /\ ListIdle
  /\ SearchIdle
  /\ TimerIdle
  /\ WizIdle
  /\ animNow = 0
  /\ \E c \in ShimmerConfigs : anim = NewShimmerState(c, 0)
  /\ animFocus = "table"
  /\ animTick = One(ListInitCmd(anim))

AnimClockAdvance ==
  /\ \E d \in AnimDelays :
       /\ animNow + d <= MaxAnimClock
       /\ animNow' = animNow + d
  /\ UNCHANGED <<listVars, searchVars, timerVars, wizVars, anim, animFocus, animTick>>

\* View renders the selected title
AnimRender ==
  /\ \E n \in TextLens, w \in TitleWidths :
       anim' = RenderShimmerText(anim, n, w, animNow)
  /\ UNCHANGED <<listVars, searchVars, timerVars, wizVars, animFocus, animTick, animNow>>

\* a key of the table that changes the selection
AnimSelect ==
  /\ animFocus = "table"
  /\ anim' = ShimmerResetAt(anim, animNow)
  /\ UNCHANGED <<listVars, searchVars, timerVars, wizVars, animFocus, animTick, animNow>>

\* "/" in the table
AnimEnterSearch ==
  /\ animFocus = "table"
  /\ animFocus' = "search"
  /\ anim' = ShimmerSetActive(anim, FALSE)
  /\ animTick' = animTick + One(focusKeyCmd(anim'))
  /\ UNCHANGED <<listVars, searchVars, timerVars, wizVars, animNow>>

\* esc or enter in the search box
AnimLeaveSearch ==
  /\ animFocus = "search"
  /\ animFocus' = "table"
  /\ anim' = ShimmerSetActive(anim, TRUE)
  /\ animTick' = animTick + One(focusKeyCmd(anim'))
  /\ UNCHANGED <<listVars, searchVars, timerVars, wizVars, animNow>>

\* the scheduled shimmerTickMsg is delivered
AnimTickMsg ==
  /\ animTick > 0
  /\ animTick' = animTick - 1 + One(shimmerTickCmd(animFocus, anim))
  /\ UNCHANGED <<listVars, searchVars, timerVars, wizVars, anim, animFocus, animNow>>

AnimNext ==
  \/ AnimClockAdvance
  \/ AnimRender
  \/ AnimSelect
  \/ AnimEnterSearch
  \/ AnimLeaveSearch
  \/ AnimTickMsg

ShimmerSpec == AnimInit /\ [][AnimNext]_vars

\* the runtime delivers every scheduled tick
ShimmerLiveSpec == ShimmerSpec /\ WF_vars(AnimTickMsg)

\* ---------------------------------------------------------------- the add/edit wizard
\* Step
StepTitle == 0
StepProject == 1
StepTags == 2
StepPriority == 3
StepJira == 4
StepDueDate == 5
StepNotes == 6
StepSave == 7
StepComplete == 8

IsDigit(c) == \E i \in DOMAIN DigitChars : DigitChars[i] = c

DigitVal(c) == (CHOOSE i \in DOMAIN DigitChars : DigitChars[i] = c) - 1

AllDigits(s) == \A i \in DOMAIN s : IsDigit(s[i])

\* strconv.Atoi on a string of digits
RECURSIVE Atoi(_)
Atoi(s) ==
  IF s = <<>> THEN 0
  ELSE Atoi(SubSeq(s, 1, Len(s) - 1)) * 10 + DigitVal(s[Len(s)])

\* time.Date normalisation: the days the month has
DaysInMonth(month, year) ==
  IF month = 2
    THEN IF year % 4 = 0 /\ (year % 100 # 0 \/ year % 400 = 0) THEN 29 ELSE 28
  ELSE IF month \in {4, 6, 9, 11} THEN 30 ELSE 31

\* parseDateFormat(input): TRUE when it returns a date
parseDateFormat(input) ==
  LET slashes == { i \in DOMAIN input : input[i] = "/" }
  IN  /\ Cardinality(slashes) = 2
      /\ LET i1 == CHOOSE i \in slashes : \A j \in slashes : i <= j
             i2 == CHOOSE i \in slashes : \A j \in slashes : j <= i
             d == SubSeq(input, 1, i1 - 1)
             mo == SubSeq(input, i1 + 1, i2 - 1)
             y == SubSeq(input, i2 + 1, Len(input))
         IN  /\ Len(d) \in 1..2 /\ AllDigits(d)
             /\ Len(mo) \in 1..2 /\ AllDigits(mo)
             /\ Len(y) = 4 /\ AllDigits(y)
             /\ Atoi(d) >= 1 /\ Atoi(d) <= 31
             /\ Atoi(mo) >= 1 /\ Atoi(mo) <= 12
             /\ Atoi(y) >= 2024 /\ Atoi(y) <= 2100
             /\ Atoi(d) <= DaysInMonth(Atoi(mo), Atoi(y))

\* the regular expression class \s
IsRegexSpace(c) == c \in {" ", "\t", "\n", "\f", "\r"}

\* the length of the longest prefix of digits
DigitPrefixLen(s) ==
  Cardinality({ k \in 1..Len(s) : \A i \in 1..k : IsDigit(s[i]) })

\* the length of the longest prefix of white space
SpacePrefixLen(s) ==
  Cardinality({ k \in 1..Len(s) : \A i \in 1..k : IsRegexSpace(s[i]) })

\* parseRelativeTime: the units and the largest amount of each
RelativeUnits ==
  { [unit |-> <<"h","o","u","r">>, max |-> 8760],
    [unit |-> <<"h","o","u","r","s">>, max |-> 8760],
    [unit |-> <<"d","a","y">>, max |-> 365],
    [unit |-> <<"d","a","y","s">>, max |-> 365],
    [unit |-> <<"w","e","e","k">>, max |-> 52],
    [unit |-> <<"w","e","e","k","s">>, max |-> 52] }

\* parseRelativeTime(input): TRUE when it returns a date
parseRelativeTime(input) ==
  LET s == ToLower(input)
      k == DigitPrefixLen(s)
      rest == SubSeq(s, k + 1, Len(s))
      j == SpacePrefixLen(rest)
      unit == SubSeq(rest, j + 1, Len(rest))
  IN  /\ k >= 1 /\ j >= 1
      /\ \E u \in RelativeUnits :
           /\ u.unit = unit
           /\ Atoi(SubSeq(s, 1, k)) >= 1
           /\ Atoi(SubSeq(s, 1, k)) <= u.max

\* ParseDueDate(input): TRUE when it returns an error
ParseDueDateErr(input) ==
  IF input = <<>> THEN FALSE
  ELSE ~(parseDateFormat(TrimSpace(input)) \/ parseRelativeTime(TrimSpace(input)))

\* handleEnter: the priority tokens it accepts, after ToLower
PriorityTokens ==
  { <<"l","o","w">>, <<"m","e","d","i","u","m">>, <<"m","e","d">>,
    <<"h","i","g","h">>, <<"1">>, <<"2">>, <<"3">> }

\* NewAddTaskModel: CharLimit of the seven inputs
CharLimits == <<200, 50, 50, 10, 20, 50, 500>>

\* the prefilled map with no key set
NoPrefill ==
  [title |-> <<>>, project |-> <<>>, tags |-> <<>>, priority |-> <<>>,
   jira |-> <<>>, due_date |-> <<>>, notes |-> <<>>]

\* The text inputs are those of the bubbles library: an input is its value
\* and the position of its cursor, the number of characters before it.
\* What the library does with them is written here as the library does it.

\* characters of unicode.IsControl other than \t, \n and \r
ControlChars == {"\f", "U+000B", "U+0085"}

\* the sanitizer of the input: a tab, a line feed or a carriage return
\* becomes a space, every other control character is dropped
RECURSIVE Sanitize(_)
Sanitize(runes) ==
  IF runes = <<>> THEN <<>>
  ELSE IF Head(runes) \in {"\t", "\n", "\r"} THEN <<" ">> \o Sanitize(Tail(runes))
  ELSE IF Head(runes) \in ControlChars THEN Sanitize(Tail(runes))
  ELSE <<Head(runes)>> \o Sanitize(Tail(runes))

\* textinput.New(): the empty input
NewInput == [value |-> <<>>, pos |-> 0]

\* textinput.Model.SetValue(s) with CharLimit limit: the sanitized text is
\* cut at the limit; the cursor goes to the end when the input was empty
\* or the cursor would lie beyond the new value
InputSetValue(in, text, limit) ==
  LET runes == Sanitize(text)
      value == IF Len(runes) > limit THEN SubSeq(runes, 1, limit) ELSE runes
  IN  [value |-> value,
       pos |-> IF (in.pos = 0 /\ in.value = <<>>) \/ in.pos > Len(value)
                 THEN Len(value) ELSE in.pos]

\* the input of each step after NewAddTaskModel has set the prefilled values
PrefilledInputs(prefilled) ==
  LET texts == <<prefilled.title, prefilled.project, prefilled.tags,
                 prefilled.priority, prefilled.jira, prefilled.due_date,
                 prefilled.notes>>
  IN  [i \in 1..7 |-> InputSetValue(NewInput, texts[i], CharLimits[i])]

\* NewAddTaskModel(prefilled): the inputs hold what SetValue kept of the
\* prefilled values, the fields the prefilled values themselves
NewAddTaskModel(prefilled) ==
  [currentStep |-> StepTitle,
   inputs |-> [i \in 1..7 |-> PrefilledInputs(prefilled)[i].value],
   cursor |-> [i \in 1..7 |-> PrefilledInputs(prefilled)[i].pos],
   width |-> 0, height |-> 0,
   title |-> prefilled.title, project |-> prefilled.project, tags |-> <<>>,
   priority |-> prefilled.priority, jiraID |-> prefilled.jira,
   dueDate |-> prefilled.due_date, notes |-> prefilled.notes,
   prefilled |-> prefilled, isEditMode |-> FALSE,
   err |-> FALSE, completed |-> FALSE, cancelled |-> FALSE,
   validationErr |-> "",
   shimmer |-> [Active |-> DefaultShimmerConfig.Enabled /\ ~DefaultShimmerConfig.ReduceMotion,
                Center |-> FloatZero, IsPaused |-> FALSE, Config |-> DefaultShimmerConfig],
   showSaveModal |-> FALSE, saveModalChoice |-> FALSE]

\* NewEditTaskModel(taskID, prefilled)
NewEditTaskModel(prefilled) ==
  [NewAddTaskModel(prefilled) EXCEPT !.isEditMode = TRUE]

\* the result of a wizard handler: the model, whether tea.Quit is returned,
\* the requests handed to CreateTask or UpdateTask, and whether the handler
\* ended in a run-time panic
WResult(m, quit, calls) == [m |-> m, quit |-> quit, calls |-> calls, panic |-> FALSE]

WOk(m) == WResult(m, FALSE, <<>>)

WPanic(m) == [WOk(m) EXCEPT !.panic = TRUE]

\* AddTaskModel.nextStep
nextStep(m) ==
  IF m.currentStep < StepSave
    THEN WOk([m EXCEPT !.currentStep = m.currentStep + 1,
                       !.shimmer = ShimmerReset(m.shimmer)])
    ELSE WOk(m)

\* AddTaskModel.prevStep
prevStep(m) ==
  IF m.currentStep > StepTitle
    THEN WOk([m EXCEPT !.currentStep = m.currentStep - 1,
                       !.shimmer = ShimmerReset(m.shimmer)])
    ELSE WOk(m)

\* AddTaskModel.updateCurrentField
updateCurrentField(m) ==
  CASE m.currentStep = StepTitle -> [m EXCEPT !.title = m.inputs[1]]
    [] m.currentStep = StepProject -> [m EXCEPT !.project = m.inputs[2]]
    [] m.currentStep = StepJira -> [m EXCEPT !.jiraID = m.inputs[5]]
    [] m.currentStep = StepDueDate -> [m EXCEPT !.dueDate = m.inputs[6]]
    [] m.currentStep = StepNotes -> [m EXCEPT !.notes = m.inputs[7]]
    [] OTHER -> m

\* the request createTask builds
SaveRequest(m) ==
  [op |-> IF m.isEditMode THEN "UpdateTask" ELSE "CreateTask",
   Title |-> m.title, Priority |-> m.priority, DueDate |-> m.dueDate]

\* AddTaskModel.createTask; ioErr: the store returns an error
createTask(m, ioErr) ==
  IF m.dueDate # <<>> /\ ParseDueDateErr(m.dueDate)
    THEN WOk([m EXCEPT !.err = TRUE])
  ELSE IF ioErr
    THEN WResult([m EXCEPT !.err = TRUE], FALSE, <<SaveRequest(m)>>)
  ELSE WResult([m EXCEPT !.completed = TRUE], TRUE, <<SaveRequest(m)>>)

\* AddTaskModel.handleSaveChoice
handleSaveChoice(m, ioErr) ==
  IF m.saveModalChoice
    THEN createTask([m EXCEPT !.showSaveModal = FALSE], ioErr)
    ELSE WResult([m EXCEPT !.showSaveModal = FALSE, !.cancelled = TRUE], TRUE, <<>>)

\* AddTaskModel.handleEnter
handleEnter(m, ioErr) ==
  LET m0 == [m EXCEPT !.validationErr = ""]
  IN CASE m.currentStep = StepTitle ->
            IF TrimSpace(m.title) = <<>>
              THEN WOk([m0 EXCEPT !.validationErr = "Task title is required"])
              ELSE nextStep(m0)
       [] m.currentStep = StepProject -> nextStep(m0)
       [] m.currentStep = StepTags ->
            LET currentTag == TrimSpace(m.inputs[3])
            IN IF currentTag \in {<<"q">>, <<"Q">>} \/ currentTag = <<>>
                 THEN nextStep(m0)
                 ELSE LET in == InputSetValue([value |-> m.inputs[3], pos |-> m.cursor[3]],
                                              <<>>, CharLimits[3])
                      IN  WOk([m0 EXCEPT !.tags = Append(m.tags, currentTag),
                                         !.inputs[3] = in.value,
                                         !.cursor[3] = in.pos])
       [] m.currentStep = StepPriority ->
            LET priorityInput == TrimSpace(m.inputs[4])
            IN IF priorityInput = <<>>
                 THEN nextStep([m0 EXCEPT !.priority = <<>>])
               ELSE IF ToLower(priorityInput) \notin PriorityTokens
                 THEN WOk([m0 EXCEPT !.validationErr = "Invalid priority"])
               ELSE nextStep([m0 EXCEPT !.priority = priorityInput])
       [] m.currentStep = StepJira -> nextStep(m0)
       [] m.currentStep = StepDueDate ->
            LET dueDateInput == TrimSpace(m.inputs[6])
            IN IF dueDateInput = <<>>
                 THEN nextStep([m0 EXCEPT !.dueDate = <<>>])
               ELSE IF ParseDueDateErr(dueDateInput)
                 THEN WOk([m0 EXCEPT !.validationErr = "Invalid due date"])
               ELSE nextStep([m0 EXCEPT !.dueDate = dueDateInput])
       [] m.currentStep = StepNotes -> nextStep(m0)
       [] m.currentStep = StepSave -> createTask(m0, ioErr)
       [] OTHER -> WOk(m0)

\* strings.Join of "#"+tag with ", "
RECURSIVE JoinTags(_)
JoinTags(tags) ==
  IF tags = <<>> THEN <<>>
  ELSE IF Len(tags) = 1 THEN <<"#">> \o tags[1]
  ELSE <<"#">> \o tags[1] \o <<",", " ">> \o JoinTags(Tail(tags))

\* AddTaskModel.hasChanges
hasChanges(m) ==
  IF m.isEditMode
    THEN \/ TrimSpace(m.title) # TrimSpace(m.prefilled.title)
         \/ TrimSpace(m.project) # TrimSpace(m.prefilled.project)
         \/ TrimSpace(m.priority) # TrimSpace(m.prefilled.priority)
         \/ TrimSpace(m.jiraID) # TrimSpace(m.prefilled.jira)
         \/ TrimSpace(m.dueDate) # TrimSpace(m.prefilled.due_date)
         \/ TrimSpace(m.notes) # TrimSpace(m.prefilled.notes)
         \/ JoinTags(m.tags) # TrimSpace(m.prefilled.tags)
    ELSE \/ TrimSpace(m.title) # <<>>
         \/ TrimSpace(m.project) # <<>>
         \/ Len(m.tags) > 0
         \/ TrimSpace(m.priority) # <<>>
         \/ TrimSpace(m.jiraID) # <<>>
         \/ TrimSpace(m.dueDate) # <<>>
         \/ TrimSpace(m.notes) # <<>>

\* keys with a name; every other key message carries typed text
WizardModalKeys == {"left", "right", "y", "Y", "n", "N", "enter", "esc", "ctrl+c", "x"}
WizardStepKeys ==
  {"ctrl+c", "esc", "enter", "tab", "down", "shift+tab", "up", "backspace",
   "home", "ctrl+u"}

\* the largest and the smallest number of a set of numbers
Max(a, b) == IF a > b THEN a ELSE b

Greatest(S) == CHOOSE x \in S : \A y \in S : y <= x

Least(S) == CHOOSE x \in S : \A y \in S : x <= y

\* the input the wizard is on: the one of the current step
CurrentInput(m) ==
  [value |-> m.inputs[m.currentStep + 1], pos |-> m.cursor[m.currentStep + 1]]

\* textinput.Model.Update on typed or pasted text (insertRunesFromUserInput):
\* the sanitized text is inserted at the cursor as far as CharLimit leaves
\* room, and the cursor moves behind it
InputInsert(in, text, limit) ==
  LET avail == limit - Len(in.value)
      paste == IF avail < Len(Sanitize(text))
                 THEN SubSeq(Sanitize(text), 1, avail) ELSE Sanitize(text)
  IN  IF avail <= 0 THEN in
      ELSE [value |-> SubSeq(in.value, 1, in.pos) \o paste
                        \o SubSeq(in.value, in.pos + 1, Len(in.value)),
            pos |-> in.pos + Len(paste)]

\* deleteWordForward reads the character behind the cursor it has just
\* advanced: with the cursor before the last character that index is the
\* length of the value, and the handler panics
InputKeyPanics(in, key) ==
  key \in {"alt+delete", "alt+d"} /\ in.pos = Len(in.value) - 1

\* textinput.Model.Update on a key with a name, by the default key map of
\* the input; v[i] is the character at index i - 1 of the value
InputUpdateKey(in, key) ==
  LET v == in.value
      n == Len(v)
      pos == in.pos
      Cut(from, to) == [value |-> SubSeq(v, 1, from) \o SubSeq(v, to + 1, n),
                        pos |-> from]
      Move(to) == [in EXCEPT !.pos = to]
      \* deleteWordBackward: the cursor steps back once, over space while it
      \* is not at the start, then to the start of the word
      back1 == Greatest({q \in 0..(pos - 1) : q = 0 \/ ~IsSpace(v[q + 1])})
      spacesBack == {q \in 1..back1 : IsSpace(v[q + 1])}
      back2 == IF spacesBack = {} \/ IsSpace(v[back1 + 1]) THEN 0
               ELSE Greatest(spacesBack) + 1
      \* wordBackward: over space, then over the word
      wb1 == Greatest({q \in 0..pos : q = 0 \/ ~IsSpace(v[q])})
      wb2 == Greatest({q \in 0..wb1 : q = 0 \/ IsSpace(v[q])})
      \* wordForward: over space, then over the word
      wf1 == Least({q \in pos..n : q = n \/ ~IsSpace(v[q + 1])})
      wf2 == Least({q \in wf1..n : q = n \/ IsSpace(v[q + 1])})
      \* deleteWordForward: the cursor steps forward once, over space, then
      \* over the word
      fw1 == Least({q \in (pos + 1)..n : q = n \/ ~IsSpace(v[q + 1])})
      fw2 == Least({q \in fw1..n : q = n \/ IsSpace(v[q + 1])})
  IN  CASE key \in {"alt+backspace", "ctrl+w"} ->
             IF pos = 0 \/ n = 0 THEN in ELSE Cut(back2, pos)
        [] key \in {"backspace", "ctrl+h"} ->
             IF n = 0 THEN in ELSE Cut(Max(0, pos - 1), pos)
        [] key \in {"alt+left", "ctrl+left", "alt+b"} ->
             IF pos = 0 \/ n = 0 THEN in ELSE Move(wb2)
        [] key \in {"left", "ctrl+b"} -> IF pos > 0 THEN Move(pos - 1) ELSE in
        [] key \in {"alt+right", "ctrl+right", "alt+f"} ->
             IF pos >= n \/ n = 0 THEN in ELSE Move(wf2)
        [] key \in {"right", "ctrl+f"} -> IF pos < n THEN Move(pos + 1) ELSE in
        [] key \in {"home", "ctrl+a"} -> Move(0)
        [] key \in {"delete", "ctrl+d"} ->
             IF n > 0 /\ pos < n THEN Cut(pos, pos + 1) ELSE in
        [] key \in {"end", "ctrl+e"} -> Move(n)
        [] key = "ctrl+k" -> Cut(pos, n)
        [] key = "ctrl+u" -> Cut(0, pos)
        [] key \in {"alt+delete", "alt+d"} ->
             IF pos >= n \/ n = 0 THEN in
             ELSE [value |-> SubSeq(v, 1, pos) \o SubSeq(v, fw2 + 1, n), pos |-> pos]
        \* ctrl+v returns the paste command, ctrl+n and ctrl+p move in an
        \* empty list of suggestions, any other key carries no text
        [] OTHER -> in

\* Update, last part: the current input handles the message and the field
\* follows it; in is the input after handling the message
UpdateInput(m, in) ==
  IF m.currentStep < StepSave
    THEN updateCurrentField([m EXCEPT !.inputs[m.currentStep + 1] = in.value,
                                      !.cursor[m.currentStep + 1] = in.pos])
    ELSE m

\* AddTaskModel.Update on a key with a name
wizardKey(m, key, ioErr) ==
  IF m.showSaveModal
    THEN CASE key \in {"left", "right"} ->
                WOk([m EXCEPT !.saveModalChoice = ~m.saveModalChoice])
           [] key \in {"y", "Y"} ->
                handleSaveChoice([m EXCEPT !.saveModalChoice = TRUE], ioErr)
           [] key \in {"n", "N"} ->
                handleSaveChoice([m EXCEPT !.saveModalChoice = FALSE], ioErr)
           [] key = "enter" -> handleSaveChoice(m, ioErr)
           [] key = "esc" -> WOk([m EXCEPT !.showSaveModal = FALSE])
           [] key = "ctrl+c" -> WResult([m EXCEPT !.cancelled = TRUE], TRUE, <<>>)
           [] OTHER -> WOk(m)
    ELSE CASE key = "ctrl+c" -> WResult([m EXCEPT !.cancelled = TRUE], TRUE, <<>>)
           [] key = "esc" ->
                IF m.currentStep = StepSave THEN prevStep(m)
                ELSE IF ~hasChanges(m)
                  THEN WResult([m EXCEPT !.cancelled = TRUE], TRUE, <<>>)
                ELSE WOk([m EXCEPT !.showSaveModal = TRUE, !.saveModalChoice = TRUE])
           [] key = "enter" -> handleEnter(m, ioErr)
           [] key \in {"tab", "down"} ->
                IF m.currentStep = StepTitle /\ TrimSpace(m.title) = <<>>
                  THEN WOk([m EXCEPT !.validationErr = "Task title is required"])
                  ELSE nextStep(m)
           [] key \in {"shift+tab", "up"} -> prevStep(m)
           \* no case label: the key goes to the current input
           [] OTHER ->
                IF m.currentStep >= StepSave THEN WOk(m)
                ELSE IF InputKeyPanics(CurrentInput(m), key) THEN WPanic(m)
                ELSE WOk(UpdateInput(m, InputUpdateKey(CurrentInput(m), key)))

\* AddTaskModel.Update on typed text
wizardText(m, text) ==
  IF m.showSaveModal \/ m.currentStep >= StepSave
    THEN WOk(m)
    ELSE WOk(UpdateInput(m, InputInsert(CurrentInput(m), text,
                                        CharLimits[m.currentStep + 1])))

\* AddTaskModel.Update on a message that is not a key, a window size or a
\* shimmer tick, such as the blink messages of the cursor: the current
\* input handles it, which changes neither its value nor its cursor, and
\* the field of the step is set to the value of the input
wizardOther(m) == WOk(UpdateInput(m, CurrentInput(m)))

\* AddTaskModel.renderPreview: the width of the card, or 0 when the small
\* layout is shown, which has no shimmering title
CardWidth(w) ==
  IF w < 85 THEN 0
  ELSE LET rightPanelWidth ==
             IF (w * 30) \div 100 >= 50 THEN (w * 30) \div 100
             ELSE IF (w * 70) \div 100 >= 50 THEN 50 ELSE 0
       IN  IF rightPanelWidth = 0 THEN 0
           ELSE IF rightPanelWidth > 45 THEN 42 ELSE 36

\* the title renderPreview shows
PreviewTitle(m) ==
  IF m.title # <<>> THEN m.title
  ELSE <<"U","n","t","i","t","l","e","d"," ","T","a","s","k">>

\* the length RenderShimmerText passes to Update for the title of the card
PreviewTitleLen(m) == VisibleTextLen(ByteLen(PreviewTitle(m)), CardWidth(m.width) - 6)

\* AddTaskModel.View when the tick interval has elapsed since the last
\* update of the shimmer: nothing is rendered once the wizard is cancelled
\* or completed, and the small layout does not render the card
wizardView(m) ==
  IF m.cancelled \/ m.completed \/ CardWidth(m.width) = 0 THEN m
  ELSE IF ~m.shimmer.Active \/ m.shimmer.Config.ReduceMotion THEN m
  ELSE [m EXCEPT !.shimmer = ShimmerAdvance(m.shimmer, PreviewTitleLen(m))]

\* AddTaskModel.Update on tea.WindowSizeMsg
wizardWindowSize(m, sz) == WOk([m EXCEPT !.width = sz.w, !.height = sz.h])

\* text typed into the input of each step
StepTexts ==
  << { <<" ">> },
     { <<"p">> },
     { <<"g">>, <<"q">> },
     { <<"2">>, <<"x">> },
     { },
     { <<"1"," ","D","a","y">>, <<" ">> },
     { } >>

\* the ways the commands open the wizard: wrok add, wrok add -i <title>,
\* wrok add -i --priority medium-high, wrok edit <id>
WizardStarts ==
  { NewAddTaskModel(NoPrefill),
    NewAddTaskModel([NoPrefill EXCEPT !.title = <<"T">>]),
    NewAddTaskModel([NoPrefill EXCEPT
                       !.priority = <<"m","e","d","i","u","m","-","h","i","g","h">>]),
    NewEditTaskModel([NoPrefill EXCEPT !.title = <<"T">>,
                                       !.priority = <<"l","o","w">>]) }

WizardSizes == { [w |-> 100, h |-> 30] }

WizInit ==
  /\ ListIdle
  /\ SearchIdle
  /\ TimerIdle
  /\ AnimIdle
  /\ wiz \in WizardStarts
  /\ wizRun = "running"
  /\ wizTyped = 0
  /\ wizLate = 0

\* the program runs until the quit message that tea.Quit produces is
\* handled; the messages read before it are still given to Update
WizardRuns == wizRun = "running" \/ (wizRun = "quit" /\ wizLate < MaxLate)

\* the runtime keeps the model Update returned; tea.Quit asks for the quit
\* message, a panic ends the program
WizDeliver(r) ==
  /\ wiz' = r.m
  /\ wizRun' = IF r.panic THEN "panic" ELSE IF r.quit THEN "quit" ELSE wizRun
  /\ wizLate' = IF wizRun = "quit" THEN wizLate + 1 ELSE wizLate
  /\ UNCHANGED <<listVars, searchVars, timerVars, animVars>>

WizKey ==
  /\ WizardRuns
  /\ \E key \in (IF wiz.showSaveModal THEN WizardModalKeys ELSE WizardStepKeys),
        ioErr \in BOOLEAN :
       WizDeliver(wizardKey(wiz, key, ioErr))
  /\ UNCHANGED wizTyped

WizType ==
  /\ WizardRuns
  /\ ~wiz.showSaveModal /\ wiz.currentStep < StepSave
  /\ wizTyped < MaxTyped
  /\ \E text \in StepTexts[wiz.currentStep + 1] :
       WizDeliver(wizardText(wiz, text))
  /\ wizTyped' = wizTyped + 1

WizResize ==
  /\ WizardRuns
  /\ \E sz \in WizardSizes : WizDeliver(wizardWindowSize(wiz, sz))
  /\ UNCHANGED wizTyped

\* a blink message of the cursor reaches Update
WizBlink ==
  /\ WizardRuns
  /\ WizDeliver(wizardOther(wiz))
  /\ UNCHANGED wizTyped

\* the runtime renders the view; at most MaxShimmerSteps updates of the
\* shimmer follow a reset
WizView ==
  /\ wizRun \in {"running", "quit"}
  /\ ~wiz.shimmer.IsPaused
  /\ \E k \in 0..(MaxShimmerSteps - 1) :
       wiz.shimmer.Center = CenterAfter(wiz.shimmer.Config, PreviewTitleLen(wiz), k)
  /\ wiz' = wizardView(wiz)
  /\ UNCHANGED <<wizRun, wizTyped, wizLate, listVars, searchVars, timerVars, animVars>>

\* the quit message is handled: the program ends with the model it has
WizExit ==
  /\ wizRun = "quit"
  /\ wizRun' = "exited"
  /\ UNCHANGED <<wiz, wizTyped, wizLate, listVars, searchVars, timerVars, animVars>>

WizNext ==
  \/ WizKey
  \/ WizType
  \/ WizResize
  \/ WizBlink
  \/ WizView
  \/ WizExit

WizardSpec == WizInit /\ [][WizNext]_vars

\* ---------------------------------------------------------------- properties
InRange(sel, n) == 0 <= sel /\ sel < n

\* the rows page shows, given the page size and the list length
OnPage(sel, page, perPage, n) ==
  page * perPage <= sel /\ sel <= Min((page + 1) * perPage, n) - 1

Ids(list) == { list[i].ID : i \in DOMAIN list }

\* C1: whenever the displayed list is non-empty, the selection index is
\* within it: 0 <= selectedTask < len(tasks).
C1_SelectionInRange ==
  Len(tasks) > 0 => InRange(selectedTask, Len(tasks))

\* C2: with a non-empty displayed list and a page size set by a resize, the
\* visible page contains the selection.
C2_PageContainsSelection ==
  (Len(tasks) > 0 /\ tasksPerPage > 0)
    => OnPage(selectedTask, currentPage, tasksPerPage, Len(tasks))

\* C3: up/down on a non-empty list with an in-range selection leave the
\* selection in range, move it by at most one row in the key's direction
\* (never wrapping), and change nothing at all at the boundary in their
\* direction.
C3_MoveSelectionClamped ==
  (TableFocus /\ Len(tasks) > 0 /\ InRange(selectedTask, Len(tasks)))
    => /\ LET r == UpdateKey(M, "up")
          IN /\ ~r.quit
             /\ InRange(Delivered(r).selectedTask, Len(tasks))
             /\ Delivered(r).selectedTask \in {selectedTask - 1, selectedTask}
             /\ selectedTask = 0 => Delivered(r) = M
       /\ LET r == UpdateKey(M, "down")
          IN /\ ~r.quit
             /\ InRange(Delivered(r).selectedTask, Len(tasks))
             /\ Delivered(r).selectedTask \in {selectedTask, selectedTask + 1}
             /\ selectedTask = Len(tasks) - 1 => Delivered(r) = M

\* C3 witness: the selection is on the last of several rows with the shimmer
\* advanced; down changes nothing there and up moves one row.
C3_Witness ==
  /\ TableFocus /\ Len(tasks) > 1 /\ selectedTask = Len(tasks) - 1
  /\ FloatLess(FloatZero, shimmer.Center)
  /\ Delivered(UpdateKey(M, "down")) = M
  /\ Delivered(UpdateKey(M, "up")).selectedTask = selectedTask - 1
  /\ Delivered(UpdateKey(M, "up")).shimmer.Center = FloatZero

\* the page count the paging methods compute
MaxPages(n, perPage) == (n + perPage - 1) \div perPage

\* C4: after left/right the selection lies on the resulting page; a page
\* change is by exactly one page and clamps the selection to the nearest row
\* of the new page; left on the first page and right on the last page change
\* nothing.
C4_PageKeepsSelectionOnPage ==
  (TableFocus /\ Len(tasks) > 0 /\ tasksPerPage > 0)
    => \A key \in {"left", "right"} :
         LET m2 == Delivered(UpdateKey(M, key))
             d == IF key = "left" THEN -1 ELSE 1
             lo == m2.currentPage * tasksPerPage
             hi == Min((m2.currentPage + 1) * tasksPerPage, Len(tasks)) - 1
         IN /\ OnPage(m2.selectedTask, m2.currentPage, tasksPerPage, Len(tasks))
            /\ m2.currentPage \in {currentPage, currentPage + d}
            /\ m2.currentPage # currentPage
                 => m2.selectedTask =
                      (IF selectedTask < lo THEN lo
                       ELSE IF selectedTask > hi THEN hi ELSE selectedTask)
            /\ (key = "left" /\ currentPage = 0) => m2 = M
            /\ (key = "right" /\ currentPage = MaxPages(Len(tasks), tasksPerPage) - 1)
                 => m2 = M

\* C5: a query that is empty, or empty after trimming, returns the task list
\* unchanged and in the same order, from the ranked search and from the live
\* search of the list view.
C5_EmptyQueryIdentity ==
  (sPhase \in {"ranked", "live"} /\ TrimSpace(sQuery) = <<>>) => sResult = sTasks

\* C5 witness: a live search with a query of two spaces shows both tasks.
C5_Witness ==
  /\ sPhase = "live" /\ sQuery = <<" ", " ">>
  /\ Len(sTasks) >= 2 /\ sResult = sTasks

TierRank(type) ==
  CASE type = "exact" -> 1 [] type = "prefix" -> 2 [] type = "suffix" -> 3
    [] type = "fuzzy" -> 4 [] OTHER -> 5

\* the non-empty searchable fields of a task, lower-cased
LowerFields(task) ==
  { ToLower(SearchableFields(task)[k]) :
      k \in { j \in DOMAIN SearchableFields(task) : SearchableFields(task)[j] # <<>> } }

\* the highest-priority tier any searchable field of the task achieves
BestTier(task, q) ==
  IF \E f \in LowerFields(task) : f = q THEN "exact"
  ELSE IF \E f \in LowerFields(task) : HasPrefix(f, q) THEN "prefix"
  ELSE IF \E f \in LowerFields(task) : HasSuffix(f, q) THEN "suffix"
  ELSE IF \E f \in LowerFields(task) : Contains(f, q) THEN "fuzzy"
  ELSE ""

\* C6: for a non-empty query the output is ordered by each record's best
\* tier: no record whose best field match is of a lower-priority tier
\* precedes a record whose best field match is of a higher-priority tier.
C6_OrderedByBestTier ==
  LET q == ToLower(TrimSpace(sQuery))
  IN (sPhase = "ranked" /\ q # <<>>)
       => \A i, j \in DOMAIN sResult :
            i < j => TierRank(BestTier(sResult[i], q)) <= TierRank(BestTier(sResult[j], q))

\* position of the task with this id in a list, 0 when absent
Pos(list, id) ==
  IF \E i \in DOMAIN list : list[i].ID = id
    THEN CHOOSE i \in DOMAIN list : list[i].ID = id
    ELSE 0

\* every task of sTasks satisfying has is in the output, before every task
\* of the output that does not satisfy it
PlacedFirst(has(_)) ==
  \A i, j \in DOMAIN sTasks :
    (has(sTasks[i]) /\ ~has(sTasks[j]))
      => /\ Pos(sResult, sTasks[i].ID) > 0
         /\ Pos(sResult, sTasks[j].ID) > 0
              => Pos(sResult, sTasks[i].ID) < Pos(sResult, sTasks[j].ID)

\* some searchable field equals the string, case-insensitively
HasFieldEqual(task, str) ==
  \E k \in DOMAIN SearchableFields(task) :
    ToLower(SearchableFields(task)[k]) = ToLower(str)

\* C7 as stated: every record with a searchable field equal
\* (case-insensitively) to the query is placed before every record without.
C7_ExactFieldFirst ==
  sPhase = "ranked" => PlacedFirst(LAMBDA t : HasFieldEqual(t, sQuery))

\* C7 amended: for a query that is non-empty after trimming, every record
\* with a searchable field equal (case-insensitively) to the trimmed query is
\* placed before every record without such a field.
C7_TrimmedExactFieldFirst ==
  (sPhase = "ranked" /\ TrimSpace(sQuery) # <<>>)
    => PlacedFirst(LAMBDA t : HasFieldEqual(t, TrimSpace(sQuery)))

\* C7 witness: the query "a " trims to "a"; the first task merely contains
\* it, the second has a title equal to it but for the case, the third does
\* not match; the second is placed before the first.
C7_Witness ==
  /\ sPhase = "ranked" /\ sQuery = <<"a", " ">> /\ Len(sTasks) = 3
  /\ sTasks[1].Title = <<"B", "a", "B">> /\ sTasks[1].Project = <<>>
  /\ sTasks[2].Title = <<"A">> /\ sTasks[2].Project = <<>>
  /\ sTasks[3].Title = <<"B">> /\ sTasks[3].Project = <<>> /\ sTasks[3].JiraID = <<>>
  /\ HasFieldEqual(sTasks[2], TrimSpace(sQuery))
  /\ ~HasFieldEqual(sTasks[1], TrimSpace(sQuery))
  /\ sResult = <<sTasks[2], sTasks[1]>>

\* C8: the task ids displayed after Backspace are a superset of the task ids
\* the live search displayed for the query before it.
C8_BackspaceSuperset ==
  sPhase = "backspaced" => Ids(sPrev) \subseteq Ids(sResult)

\* C8 witness: Backspace on a query with results brought back more tasks.
C8_Witness ==
  /\ sPhase = "backspaced" /\ sQuery # <<>>
  /\ sPrev # <<>> /\ Ids(sPrev) # Ids(sResult)

\* TypeCharacter and Backspace: the printable characters and backspace
EditKeys == PrintableKeys \cup {"backspace"}

\* C9: after every typed character or Backspace handled in the search box
\* the displayed list is the ranked search of the original set for the
\* current query and selection and page are 0.
C9_EveryEditRecomputes ==
  SearchFocus
    => \A key \in EditKeys :
         LET m2 == Delivered(UpdateKey(M, key))
         IN /\ m2.tasks = searchInMemoryTasks(m2.searchQuery, originalTasks)
            /\ m2.selectedTask = 0 /\ m2.currentPage = 0

\* what the handler does keep: after a key that changes the query, the
\* displayed list is the ranked search of the original set (never of the
\* displayed list) for the new query, and selection and page are 0.
QueryEditRecomputes ==
  SearchFocus
    => \A key \in SearchBoxKeys \ {"esc", "enter"} :
         LET m2 == Delivered(UpdateKey(M, key))
         IN m2.searchQuery # searchQuery
              => /\ m2.tasks = searchInMemoryTasks(m2.searchQuery, originalTasks)
                 /\ m2.originalTasks = originalTasks
                 /\ m2.selectedTask = 0 /\ m2.currentPage = 0

\* the query "aa" displays nothing; Backspace searches the original set
\* again and displays tasks.
BackspaceSearchesOriginal ==
  /\ SearchFocus /\ searchQuery = <<"a", "a">> /\ tasks = <<>>
  /\ Delivered(UpdateKey(M, "backspace")).searchQuery = <<"a">>
  /\ Delivered(UpdateKey(M, "backspace")).tasks # <<>>

\* a search is being edited, or is applied
LiveSearching == focus = "search"
SearchApplied == focus = "table" /\ searchPersisted

\* C10: esc while a search is edited or applied shows the full original set,
\* clears the query, resets selection and page, re-activates the shimmer and
\* returns to browsing without quitting; esc quits only when no search is
\* edited or applied.
C10_EscapeRestores ==
  Handles
    => LET r == UpdateKey(M, "esc")
       IN /\ (LiveSearching \/ SearchApplied)
               => /\ ~r.quit /\ ~r.panic
                  /\ r.m.tasks = originalTasks
                  /\ r.m.originalTasks = originalTasks
                  /\ r.m.searchQuery = <<>>
                  /\ r.m.selectedTask = 0 /\ r.m.currentPage = 0
                  /\ r.m.shimmer.Active
                  /\ r.m.focus = "table"
                  /\ ~r.m.searchActive /\ ~r.m.searchPersisted
          /\ r.quit => ~(LiveSearching \/ SearchApplied)

\* C10 witness: a filter is applied and the selection moved off the first
\* row; esc brings back the longer original list.
C10_Witness ==
  /\ run = "running" /\ SearchApplied
  /\ searchQuery # <<>> /\ selectedTask > 0
  /\ Len(tasks) < Len(originalTasks)
  /\ UpdateKey(M, "esc").m.tasks = originalTasks
  /\ ~UpdateKey(M, "esc").quit

\* C11: enter in the search box leaves the view with the search applied: the
\* query, the displayed list, the selection and the page are as before, the
\* view does not quit, and the next key is handled by the table.
C11_EnterCommits ==
  SearchFocus
    => LET r == UpdateKey(M, "enter")
           m2 == Delivered(r)
       IN /\ ~r.quit /\ ~r.panic
          /\ m2.focus = "table" /\ m2.searchPersisted /\ ~m2.searchActive
          /\ m2.searchQuery = searchQuery
          /\ m2.tasks = tasks /\ m2.originalTasks = originalTasks
          /\ m2.selectedTask = selectedTask /\ m2.currentPage = currentPage
          /\ UpdateKey(m2, "q").quit

\* C11 witness: a query is being edited and filters the list; enter applies it.
C11_Witness ==
  /\ SearchFocus /\ searchQuery # <<>>
  /\ Len(tasks) > 0 /\ Len(tasks) < Len(originalTasks)
  /\ Delivered(UpdateKey(M, "enter")).searchPersisted
  /\ Delivered(UpdateKey(M, "enter")).tasks = tasks

\* the task matches the query in the ranked search
Matches(task, query) == MatchType(task, ToLower(TrimSpace(query))) # ""

\* C12: with a search applied and a non-empty query, the refresh after a
\* successful toggle leaves mode and query as they were and displays only
\* tasks that match the query.
C12_RefreshKeepsFilter ==
  (TableFocus /\ SearchApplied /\ TrimSpace(searchQuery) # <<>>)
    => \A hot \in {"d", "a"} :
         LET o == IF hot = "d" THEN toggleDoneTask(M, db, FALSE, FALSE)
                  ELSE archiveTask(M, db, FALSE, FALSE)
         IN o.ok
              => /\ o.m.searchQuery = searchQuery
                 /\ o.m.searchPersisted /\ o.m.focus = "table"
                 /\ \A i \in DOMAIN o.m.tasks : Matches(o.m.tasks[i], searchQuery)

\* C13: a resize changes the stored width and height and sets the page size
\* to max(3, h - 12), and changes nothing else of the view; the table is
\* compact exactly when 60% of the new width is below 63.
C13_ResizeFrame ==
  Handles
    => \A sz \in WindowSizes :
         LET r == UpdateWindowSize(M, sz)
             m2 == Delivered(r)
         IN /\ ~r.quit /\ ~r.panic
            /\ m2 = [M EXCEPT !.width = sz.w, !.height = sz.h,
                              !.tasksPerPage = IF sz.h - 12 > 3 THEN sz.h - 12 ELSE 3]
            /\ ~ShowExtraColumns(m2.width) <=> (m2.width * 60 < 63 * 100)

\* C13 witness: the second page is shown with the selection on it, and a
\* resize changes the page size and the layout.
C13_Witness ==
  /\ run = "running" /\ width # 0 /\ currentPage > 0 /\ selectedTask > 0
  /\ \E sz \in WindowSizes :
        /\ AvailableHeight(sz.h) # tasksPerPage
        /\ ShowExtraColumns(sz.w) # ShowExtraColumns(width)
        /\ Delivered(UpdateWindowSize(M, sz)).currentPage = currentPage
        /\ Delivered(UpdateWindowSize(M, sz)).tasksPerPage = AvailableHeight(sz.h)

\* the list shows the task with this id in this status
Shows(list, id, status) ==
  \E i \in DOMAIN list : list[i].ID = id /\ list[i].Status = status

\* C14: "d" on a selected task shown as todo leaves it done in the store and
\* in the displayed list (done becomes todo); "a" leaves a task not shown as
\* archived archived, and an archived one todo, in the store and in the list.
C14_ToggleFlipsStatus ==
  (TableFocus /\ Len(tasks) > 0 /\ selectedTask < Len(tasks))
    => LET t == tasks[selectedTask + 1]
           d == toggleDoneTask(M, db, FALSE, FALSE)
           a == archiveTask(M, db, FALSE, FALSE)
           wantD == IF t.Status = StatusDone THEN StatusTodo ELSE StatusDone
           wantA == IF t.Status = StatusArchived THEN StatusTodo ELSE StatusArchived
       IN /\ t.Status \in {StatusTodo, StatusDone}
               => d.store[t.ID] = wantD /\ Shows(d.m.tasks, t.ID, wantD)
          /\ a.store[t.ID] = wantA /\ Shows(a.m.tasks, t.ID, wantA)

\* C15: when the status update of "d" or "a" fails, the handler returns the
\* model exactly as it was and no quit command.
C15_FailedHotkeySwallowed ==
  (TableFocus /\ Len(tasks) > 0 /\ selectedTask < Len(tasks))
    => \A ioErr \in BOOLEAN, getErr \in BOOLEAN :
         LET d == toggleDoneTask(M, db, ioErr, getErr)
             a == archiveTask(M, db, ioErr, getErr)
         IN /\ ~d.ok => d.m = M /\ ~d.quit
            /\ ~a.ok => a.m = M /\ ~a.quit

\* C15 witness: the selected task is shown as todo but is done in the store,
\* with the shimmer advanced; the store rejects "d" and nothing changes.
C15_Witness ==
  /\ TableFocus /\ Len(tasks) > 0 /\ selectedTask < Len(tasks)
  /\ tasks[selectedTask + 1].Status = StatusTodo
  /\ db[tasks[selectedTask + 1].ID] = StatusDone
  /\ FloatLess(FloatZero, shimmer.Center)
  /\ ~toggleDoneTask(M, db, FALSE, FALSE).ok
  /\ toggleDoneTask(M, db, FALSE, FALSE).m = M

\* C16: StartSession called while a session is active returns the conflict
\* error, creates no session and leaves every stored session as it was,
\* whichever of its statements fail.
C16_StartWhileActiveConflict ==
  ActiveSessions(sessions) # {}
    => \A taskID \in StartArgs, taskErr \in BOOLEAN, queryErr \in BOOLEAN,
          createErr \in BOOLEAN :
         LET r == StartSession(sessions, taskID, clock, taskErr, queryErr, createErr)
         IN  r.err = "conflict" /\ r.sessions = sessions

\* C17: at most one session is active in the store.
C17_AtMostOneActive ==
  Cardinality(ActiveSessions(sessions)) <= 1

\* C18: s or S in the timer view sets stopping and quits; RunTimerTUI then
\* calls StopActiveSession once, after which the session of the view is
\* finished and no session is active.
C18_StopSavesSession ==
  \A p \in Procs :
    /\ pc[p] = "timer"
         => \A key \in {"s", "S"} :
              LET r == TimerUpdateKey(tm[p], key)
              IN r.quit /\ r.t.stopping /\ AfterRun(r.t, sessions, clock, FALSE, FALSE, FALSE).calls = 1
    /\ (pc[p] = "quit" /\ tm[p].stopping)
         => LET a == AfterRun(tm[p], sessions, clock, FALSE, FALSE, FALSE)
            IN /\ a.calls = 1
               /\ a.sessions[tm[p].sid].FinishedAt # <<>>
               /\ ActiveSessions(a.sessions) = {}

\* C19: esc, q and ctrl+c in the timer view set exiting, not stopping, and
\* quit; RunTimerTUI then makes no StopActiveSession call and leaves the
\* sessions table, and with it the active session, as it is.
C19_ExitKeepsSession ==
  \A p \in Procs :
    /\ pc[p] = "timer"
         => \A key \in {"esc", "q", "ctrl+c"} :
              LET r == TimerUpdateKey(tm[p], key)
              IN /\ r.quit /\ r.t.exiting /\ ~r.t.stopping
                 /\ AfterRun(r.t, sessions, clock, FALSE, FALSE, FALSE).calls = 0
                 /\ AfterRun(r.t, sessions, clock, FALSE, FALSE, FALSE).sessions = sessions
    /\ (pc[p] = "quit" /\ tm[p].exiting)
         => /\ AfterRun(tm[p], sessions, clock, FALSE, FALSE, FALSE).calls = 0
            /\ AfterRun(tm[p], sessions, clock, FALSE, FALSE, FALSE).sessions = sessions

\* C20: the duration stored with a finished session is the floor of
\* (finish - start) in seconds and is not negative; the clock of the timer
\* view shows hours, minutes and seconds that add up to the floor of the
\* elapsed seconds, minutes and seconds within 0..59, hours only when > 0.
C20_DurationAndClock ==
  /\ \A i \in DOMAIN sessions :
       sessions[i].FinishedAt # <<>>
         => /\ sessions[i].DurationSeconds =
                 (sessions[i].FinishedAt[1] - sessions[i].StartedAt) \div HalfSecondsPerSecond
            /\ sessions[i].DurationSeconds >= 0
  /\ \A p \in Procs :
       pc[p] = "timer"
         => LET e == tm[p].elapsedTime
                h == ClockHours(e)
                m == ClockMinutes(e)
                sec == ClockSeconds(e)
            IN /\ h * 3600 + m * 60 + sec = e \div HalfSecondsPerSecond
               /\ 0 <= m /\ m < 60 /\ 0 <= sec /\ sec < 60
               /\ Len(TimeFields(e)) = 3 <=> h > 0
               /\ TimeFields(e) = IF h > 0 THEN <<h, m, sec>> ELSE <<m, sec>>

\* the label lengths Update is called with
VisibleLens == { VisibleTextLen(n, w) : n \in TextLens, w \in TitleWidths } \ {0}

\* Update advances or un-pauses: the shimmer is active and the call is not
\* throttled by SpeedMs
Unthrottled(s, now) ==
  s.Active /\ ~s.Config.ReduceMotion /\ now - s.LastUpdate >= s.Config.SpeedMs

\* C21: an update that starts with the shimmer active and not paused never
\* leaves the center lower than it was, whatever label length it is given.
C21_CenterMonotone ==
  \A n \in VisibleLens :
    (anim.Active /\ ~anim.IsPaused)
      => FloatGeq(ShimmerUpdate(anim, n, animNow).Center, anim.Center)

\* C22: Reset from any state leaves the center at 0 and the shimmer not
\* paused, and does not change whether it is active.
C22_ResetZeroes ==
  LET r == ShimmerResetAt(anim, animNow)
  IN  r.Center = FloatZero /\ ~r.IsPaused /\ r.Active = anim.Active

\* C22 witness: Reset is called during the pause, the center held at the end
\* of the range.
C22_Witness ==
  /\ animFocus = "table"
  /\ anim.IsPaused /\ FloatLess(FloatZero, anim.Center) /\ anim.Active
  /\ ShimmerResetAt(anim, animNow).Center = FloatZero
  /\ ~ShimmerResetAt(anim, animNow).IsPaused

\* reaching the end of the extended range pauses the shimmer there
PauseStarts(s, now) ==
  \A n \in VisibleLens :
    (Unthrottled(s, now) /\ ~s.IsPaused
       /\ FloatGeq(FloatAdd(s.Center, Velocity(s.Config, n)), MaxCenter(s.Config, n)))
      => LET u == ShimmerUpdate(s, n, now)
         IN  u.IsPaused /\ u.Center = MaxCenter(s.Config, n)
             /\ u.PauseStartTime = now

PauseOver(s, now) == now - s.PauseStartTime >= s.Config.PauseBetweenMs

\* C29 as stated: an update that reaches the end of the extended range
\* pauses the shimmer there; the shimmer stays paused with the same center
\* until the pause duration has elapsed; the first update after that
\* un-pauses it at the start of the extended range.
C29_PauseCycle ==
  /\ [](PauseStarts(anim, animNow))
  /\ [][(anim.IsPaused /\ ~PauseOver(anim, animNow))
          => (anim'.IsPaused /\ anim'.Center = anim.Center)]_vars
  /\ [](\A n \in VisibleLens :
          (anim.IsPaused /\ PauseOver(anim, animNow))
            => LET u == ShimmerUpdate(anim, n, animNow)
               IN  ~u.IsPaused /\ u.Center = StartCenter(anim.Config, n))

\* C29 amended: the pause is left early only by Reset, and it ends with the
\* first update after the pause duration that is not throttled: the shimmer
\* is active and SpeedMs have passed since the last update.
C29_PauseCycleUnthrottled ==
  /\ [](PauseStarts(anim, animNow))
  /\ [][(anim.IsPaused /\ ~PauseOver(anim, animNow)
           /\ anim' # ShimmerResetAt(anim, animNow))
          => (anim'.IsPaused /\ anim'.Center = anim.Center)]_vars
  /\ [](\A n \in VisibleLens :
          (anim.IsPaused /\ PauseOver(anim, animNow)
             /\ Unthrottled(anim, animNow))
            => LET u == ShimmerUpdate(anim, n, animNow)
               IN  ~u.IsPaused /\ u.Center = StartCenter(anim.Config, n))

\* C29 witness: the pause duration has elapsed and an update that is not
\* throttled un-pauses the shimmer one sweep width before the label.
C29_Witness ==
  /\ anim.IsPaused /\ PauseOver(anim, animNow) /\ Unthrottled(anim, animNow)
  /\ \E n \in VisibleLens :
       LET u == ShimmerUpdate(anim, n, animNow)
       IN  ~u.IsPaused /\ u.Center = StartCenter(anim.Config, n)
           /\ FloatLess(u.Center, FloatZero)

\* the view is inactive: animation disabled, reduced motion, or the focus on
\* the search box
AnimInactive ==
  ~anim.Config.Enabled \/ anim.Config.ReduceMotion \/ animFocus = "search"

\* C23: an inactive list view schedules no shimmer tick: neither Init nor
\* the handling of a shimmer tick returns a tick command when animation is
\* disabled, reduced motion is set, or the focus is on the search box; with
\* reduced motion SetActive(true) does not bring ticking back.
C23_InactiveNeverSchedules ==
  /\ AnimInactive
       => (~ListInitCmd(anim) /\ ~shimmerTickCmd(animFocus, anim))
  /\ anim.Config.ReduceMotion
       => LET s == ShimmerSetActive(anim, TRUE)
          IN  ~s.Active /\ ~ListInitCmd(s) /\ ~shimmerTickCmd("table", s)

\* C23 witness: "/" has moved the focus to the search box of an animated view
\* while a tick is still scheduled; handling it schedules no further tick.
C23_Witness ==
  /\ animFocus = "search" /\ animTick > 0
  /\ anim.Config.Enabled /\ ~anim.Config.ReduceMotion
  /\ ~anim.Active
  /\ ~shimmerTickCmd(animFocus, anim)

\* C25: whenever the list view has table focus with animation enabled and
\* no reduced motion, a shimmer tick is scheduled then or later; so ticks
\* come back after the search box is left.
C25_TickEventually ==
  (animFocus = "table" /\ anim.Config.Enabled /\ ~anim.Config.ReduceMotion)
    ~> (animTick > 0)

\* C24: once the timer view has handled Stop or Exit, handling a pending
\* elapsed-time tick or animation tick returns no further tick.
C24_NoTickAfterQuit ==
  \A p \in Procs :
    (tm[p].stopping \/ tm[p].exiting)
      => /\ ~timerTickCmd(TimerUpdateTick(tm[p], Now))
         /\ ~animationTickCmd(TimerUpdateAnimation(tm[p]))

\* C24 witness: a timer view that has ticked and animated has handled Exit
\* and has not returned yet; a pending tick is handled without a new one.
C24_Witness ==
  \E p \in Procs :
    /\ pc[p] = "quit" /\ tm[p].exiting
    /\ tm[p].timerAnimation > 0 /\ tm[p].elapsedTime > 0
    /\ ~timerTickCmd(TimerUpdateTick(tm[p], Now))
    /\ ~animationTickCmd(TimerUpdateAnimation(tm[p]))

\* C27: a MoveSelection key that moves the selection to a row outside the
\* current page changes the page index by exactly one in its direction, and
\* the new page contains the new selection; when the new row is inside the
\* current page the page index does not change.
C27_MoveTurnsOnePage ==
  (TableFocus /\ Len(tasks) > 0 /\ InRange(selectedTask, Len(tasks))
     /\ tasksPerPage > 0)
    => \A key \in {"up", "k", "down"} :
         LET m2 == Delivered(UpdateKey(M, key))
             d == IF key = "down" THEN 1 ELSE -1
         IN IF OnPage(m2.selectedTask, currentPage, tasksPerPage, Len(tasks))
              THEN m2.currentPage = currentPage
              ELSE m2.selectedTask # selectedTask
                     => /\ m2.currentPage = currentPage + d
                        /\ OnPage(m2.selectedTask, m2.currentPage,
                                  tasksPerPage, Len(tasks))

\* the task the selection is on, 0 when it is on no row
SelectedId(m) ==
  IF InRange(m.selectedTask, Len(m.tasks)) THEN m.tasks[m.selectedTask + 1].ID ELSE 0

\* the selection of m2 is on a row, and on another one than that of m
SelectsOtherRow(m, m2) ==
  /\ InRange(m2.selectedTask, Len(m2.tasks))
  /\ m2.selectedTask # m.selectedTask \/ SelectedId(m2) # SelectedId(m)

\* C28: every operation that changes which row is selected leaves the
\* animation center at the sweep start in the same step: the keys of the
\* table and of the search box, and the refresh after a store hotkey.
C28_SelectionChangeResets ==
  (Handles /\ Len(tasks) > 0 /\ InRange(selectedTask, Len(tasks))
     /\ tasksPerPage > 0)
    => /\ \A key \in TableKeys \cup SearchBoxKeys :
            LET m2 == Delivered(UpdateKey(M, key))
            IN  SelectsOtherRow(M, m2) => m2.shimmer.Center = FloatZero
       /\ TableFocus =>
            \A getErr \in BOOLEAN :
              LET d == toggleDoneTask(M, db, FALSE, getErr).m
                  a == archiveTask(M, db, FALSE, getErr).m
              IN /\ SelectsOtherRow(M, d) => d.shimmer.Center = FloatZero
                 /\ SelectsOtherRow(M, a) => a.shimmer.Center = FloatZero

\* every task of the list has the status the store holds for it
Fresh(list, store) == \A i \in DOMAIN list : list[i].Status = store[list[i].ID]

\* C30: after a successful "d" or "a" both cached lists come from the new
\* store snapshot: the displayed list and the original set hold the stored
\* status of every task, and so does the list shown after "/" and Escape.
C30_RefreshReplacesOriginal ==
  (TableFocus /\ Len(tasks) > 0 /\ selectedTask < Len(tasks))
    => \A hot \in {"d", "a"} :
         LET o == IF hot = "d" THEN toggleDoneTask(M, db, FALSE, FALSE)
                  ELSE archiveTask(M, db, FALSE, FALSE)
             s == Delivered(UpdateKey(Delivered(UpdateKey(o.m, "/")), "esc"))
         IN o.ok
              => /\ Fresh(o.m.tasks, o.store)
                 /\ Fresh(o.m.originalTasks, o.store)
                 /\ Fresh(s.tasks, o.store)

\* the input of the current step holds a value the wizard rejects: an empty
\* title, a priority token that is not accepted, a due date that does not parse
InvalidStepValue(m) ==
  \/ m.currentStep = StepTitle /\ TrimSpace(m.title) = <<>>
  \/ /\ m.currentStep = StepPriority
     /\ TrimSpace(m.inputs[4]) # <<>>
     /\ ToLower(TrimSpace(m.inputs[4])) \notin PriorityTokens
  \/ /\ m.currentStep = StepDueDate
     /\ TrimSpace(m.inputs[6]) # <<>>
     /\ ParseDueDateErr(TrimSpace(m.inputs[6]))

\* C26: while the current step of the wizard holds an invalid value, none of
\* Enter, Tab and Down moves the wizard to a later step.
C26_InvalidValueBlocks ==
  (WizardRuns /\ ~wiz.showSaveModal /\ InvalidStepValue(wiz))
    => \A key \in {"enter", "tab", "down"} :
         wizardKey(wiz, key, FALSE).m.currentStep <= wiz.currentStep

\* some non-empty searchable field of the task contains q, ignoring case
FieldContains(task, q) ==
  \E f \in LowerFields(task) : Contains(f, ToLower(q))

\* the output holds exactly the tasks of sTasks with a field containing q,
\* each once
ExactlyTheMatches(q) ==
  /\ Ids(sResult) = { sTasks[i].ID : i \in { j \in DOMAIN sTasks : FieldContains(sTasks[j], q) } }
  /\ \A i, j \in DOMAIN sResult : sResult[i].ID = sResult[j].ID => i = j
  /\ \A i \in DOMAIN sResult : sResult[i] = sTasks[sResult[i].ID]

\* two tasks the search puts in the same tier keep their order from sTasks
StableWithinTier(q) ==
  \A i, j \in DOMAIN sTasks :
    (i < j /\ MatchType(sTasks[i], ToLower(q)) # ""
           /\ MatchType(sTasks[i], ToLower(q)) = MatchType(sTasks[j], ToLower(q)))
      => Pos(sResult, sTasks[i].ID) < Pos(sResult, sTasks[j].ID)

\* C31 as stated: for every non-empty query the output of the ranked search
\* holds exactly the records with a non-empty searchable field containing the
\* query, each once, and within each tier in their order from the list.
C31_ExactlyMatchesStable ==
  (sPhase = "ranked" /\ sQuery # <<>>)
    => ExactlyTheMatches(sQuery) /\ StableWithinTier(sQuery)

\* C31 amended: the same for a query that is non-empty after trimming, with
\* the trimmed query in place of the query.
C31_TrimmedMatchesStable ==
  (sPhase = "ranked" /\ TrimSpace(sQuery) # <<>>)
    => ExactlyTheMatches(TrimSpace(sQuery)) /\ StableWithinTier(TrimSpace(sQuery))

\* C31 witness: a query with a space around it ranked a list of which one
\* task has no matching field, and two tasks of one tier kept their order.
C31_Witness ==
  /\ sPhase = "ranked" /\ sQuery = <<"a", " ">> /\ Len(sTasks) = 3
  /\ Len(sResult) = 2
  /\ sResult[1].ID < sResult[2].ID
  /\ MatchType(sResult[1], <<"a">>) = "fuzzy"
  /\ MatchType(sResult[2], <<"a">>) = "fuzzy"

\* C32: for the same task list and the same query, searchInMemoryTasks and
\* SearchTasks return the same sequence of tasks.
C32_SameAsOffline ==
  /\ sPhase = "ranked" => sResult = SearchTasks(sQuery, DbSearch(TRUE, sTasks)).tasks
  /\ sPhase = "offline" => sResult = searchInMemoryTasks(sQuery, sTasks)

\* C32 witness: the offline search ranked a mixed-case query over three
\* tasks, dropped one and moved a later task to the front.
C32_Witness ==
  /\ sPhase = "offline" /\ sQuery = <<"a", "B">> /\ Len(sTasks) = 3
  /\ Len(sResult) = 2
  /\ sResult[1].ID > sResult[2].ID

\* the tasks that sessions are started for
SessionTasks == { t \in StartArgs : t \in TaskIds }

\* after the call no session of task t is active, and the sessions of other
\* tasks are as they were
NoSessionOf(t, before, after) ==
  /\ \A i \in ActiveSessions(after) : after[i].TaskID # t
  /\ \A i \in DOMAIN before : before[i].TaskID # t => after[i] = before[i]
  /\ \A i \in ActiveSessions(before) \ ActiveSessions(after) :
       /\ after[i].FinishedAt = <<clock>>
       /\ after[i].DurationSeconds = Trunc(clock - before[i].StartedAt, HalfSecondsPerSecond)

\* C33: after MarkTaskDone(t) or ArchiveTask(t) succeeds no session of t is
\* active: an active session of t was stopped, with its end and duration
\* recorded, and the sessions of other tasks are unchanged.
C33_DoneStopsSession ==
  \A t \in SessionTasks, status \in {StatusTodo, StatusDone, StatusArchived} :
    /\ MarkTaskDoneSessions(sessions, status, t, clock, {}).ok
         => NoSessionOf(t, sessions, MarkTaskDoneSessions(sessions, status, t, clock, {}).sessions)
    /\ ArchiveTaskSessions(sessions, status, t, clock, {}).ok
         => NoSessionOf(t, sessions, ArchiveTaskSessions(sessions, status, t, clock, {}).sessions)

\* the timer view of p is open and has not been asked to quit
Running(p) == pc[p] = "timer" /\ ~tm[p].stopping /\ ~tm[p].exiting

\* C34: while the timer view is Running, an elapsed-time tick sets elapsed
\* to now - session start (the start stored with the view's session, the
\* difference as Time.Sub takes it) and schedules the next one, an
\* animation tick advances the frame modulo 4 and schedules the next one,
\* one tick of each kind is pending, and the elapsed value never decreases.
C34_TicksWhileRunning ==
  /\ [](\A p \in Procs :
          Running(p)
            => /\ tm[p].StartedAt.wall = sessions[tm[p].sid].StartedAt
               /\ TimerUpdateTick(tm[p], Now).elapsedTime
                    = IF tm[p].StartedAt.mono = NoMono
                        THEN clock - sessions[tm[p].sid].StartedAt
                        ELSE mono - tm[p].StartedAt.mono
               /\ One(timerTickCmd(TimerUpdateTick(tm[p], Now))) = 1
               /\ TimerUpdateAnimation(tm[p]).timerAnimation
                    = (tm[p].timerAnimation + 1) % 4
               /\ One(animationTickCmd(TimerUpdateAnimation(tm[p]))) = 1
               /\ tm[p].timerTicks = 1 /\ tm[p].animationTicks = 1)
  /\ [][\A p \in Procs :
          (Running(p) /\ pc'[p] = "timer")
            => tm'[p].elapsedTime >= tm[p].elapsedTime]_vars

\* the keys that move the selection or turn the page
NavigationKeys == {"up", "down", "left", "right", "h", "j", "k", "l"}

\* C35: no navigation key is handled while the page size is 0: the view
\* never faults on the division by the page size, and with table focus no
\* navigation key would fault, even before the first resize message.
C35_NoDivisionByZero ==
  /\ run # "panic"
  /\ TableFocus => \A key \in NavigationKeys : ~UpdateKey(M, key).panic

\* C36: in LiveSearching a printable character appends exactly itself to the
\* query and the ranked filter is recomputed for the new query; of the other
\* keys only Backspace and Escape change the query.
C36_PrintableAppends ==
  SearchFocus
    => /\ \A key \in PrintableKeys :
            LET m2 == Delivered(UpdateKey(M, key))
            IN /\ m2.searchQuery = Append(searchQuery, key)
               /\ m2.tasks = searchInMemoryTasks(m2.searchQuery, originalTasks)
       /\ \A key \in SearchBoxKeys \ (PrintableKeys \cup {"backspace", "esc"}) :
            Delivered(UpdateKey(M, key)).searchQuery = searchQuery

\* C37: in every state of the list view, with focus on the table or on the
\* search box, ctrl+c makes the view quit.
C37_CtrlCQuits ==
  Handles => UpdateKey(M, "ctrl+c").quit

\* C38: the wizard never hands CreateTask or UpdateTask a title that is
\* empty after trimming, whether the save is asked for with Enter on the
\* Save step or with Yes in the save-confirmation modal.
C38_NoEmptyTitleSaved ==
  WizardRuns
    => \A key \in WizardModalKeys \cup WizardStepKeys, ioErr \in BOOLEAN :
         LET calls == wizardKey(wiz, key, ioErr).calls
         IN \A i \in DOMAIN calls : TrimSpace(calls[i].Title) # <<>>

\* C39: the timer view never has both stopping and exiting set: once Stop or
\* Exit has been handled no later key sets the other flag, so what
\* RunTimerTUI does follows the first key pressed.
C39_OneTerminalState ==
  \A p \in Procs :
    /\ ~(tm[p].stopping /\ tm[p].exiting)
    /\ (tm[p].stopping \/ tm[p].exiting)
         => \A key \in TimerKeys :
              /\ TimerUpdateKey(tm[p], key).t.stopping = tm[p].stopping
              /\ TimerUpdateKey(tm[p], key).t.exiting = tm[p].exiting

\* C40: in the list view at most one shimmer tick is pending, whatever the
\* sequence of Init, tick deliveries and switches between table focus and
\* search focus.
C40_AtMostOneTick ==
  animTick <= 1

\* C40 witness: the focus is on the search box while the tick scheduled
\* before is still pending; leaving the search box makes the shimmer active
\* again and adds no second tick.
C40_Witness ==
  /\ animFocus = "search" /\ animTick = 1 /\ animNow > 0
  /\ ShouldTick(ShimmerSetActive(anim, TRUE))
  /\ animTick + One(focusKeyCmd(ShimmerSetActive(anim, TRUE))) = 1

====
